---- MODULE Spec2Model ----
(***************************************************************************)
(* Flocking simulation (Bird / FlockingSystem): the sequential and the     *)
(* OpenMP update kernels, the population operations and the vector math    *)
(* they rest on.                                                           *)
(*                                                                         *)
(* Numbers.  A C++ float is modelled as a fixed-point integer: the float   *)
(* value v is the integer v * Scale, rounded to nearest.  A product of two *)
(* floats is FMul, a quotient is FDiv; both round to nearest, ties away    *)
(* from zero, so that negating the operands negates the result as IEEE     *)
(* arithmetic does.  sqrt rounds down.  A float keeps 24 significant bits  *)
(* whatever its size, a fixed-point number does not: where the code stores *)
(* a reciprocal (inv = 1/sqrt(s2), inv = maxMag/sqrt(s2)) and multiplies   *)
(* by it, the model divides by the root, which is what the multiplication  *)
(* computes up to the float's last bit.  Squares that exceed the integer   *)
(* range saturate at Huge, which is larger than every squared radius.      *)
(***************************************************************************)
EXTENDS Integers, Sequences, FiniteSets, TLC

\* Fixed-point units per pixel.
Scale == 800

\* Largest representable magnitude of a squared quantity.
Huge == (2^30 - 1) + 2^30

\* Largest root whose square is below Huge.
RootHuge == 46341 - 1

Abs(a) == IF a < 0 THEN -a ELSE a

Sign(a) == IF a < 0 THEN -1 ELSE IF a > 0 THEN 1 ELSE 0

Max(a, b) == IF a >= b THEN a ELSE b

\* a / b rounded to nearest, ties away from zero (b # 0).
RoundDiv(a, b) == Sign(a) * Sign(b) * ((Abs(a) + (Abs(b) \div 2)) \div Abs(b))

\* float * float
FMul(a, b) == RoundDiv(a * b, Scale)

\* float / float
FDiv(a, b) == RoundDiv(a * Scale, b)

\* The float value num/den (a literal such as 0.03f is Lit(3, 100)).
Lit(num, den) == RoundDiv(num * Scale, den)

\* static_cast<float>(n) of an int n
FromInt(n) == n * Scale

\* x*x as a float product of two fixed-point numbers, kept at scale
\* Scale^2 (the unit of every squared quantity: d2, s2, m2, sepR2 ...).
Sq(a) == IF Abs(a) > RootHuge THEN Huge ELSE a * a

SatAdd(a, b) == IF a >= Huge - b THEN Huge ELSE a + b

\* x*x + y*y
SumSq(x, y) == SatAdd(Sq(x), Sq(y))

\* Newton's iteration for the integer square root, from a guess x >= sqrt(n).
RECURSIVE SqrtNewton(_, _)
SqrtNewton(n, x) ==
    LET y == (x + (n \div x)) \div 2
    IN  IF y >= x THEN x ELSE SqrtNewton(n, y)

\* A power of two above sqrt(n).
SqrtGuess(n) ==
    IF n < 2^8 THEN 2^4
    ELSE IF n < 2^12 THEN 2^6
    ELSE IF n < 2^16 THEN 2^8
    ELSE IF n < 2^20 THEN 2^10
    ELSE IF n < 2^24 THEN 2^12
    ELSE IF n < 2^28 THEN 2^14
    ELSE RootHuge + 1

\* std::sqrt of a squared quantity n (scale Scale^2), rounded down: a float
\* at scale Scale.
Sqrt(n) == IF n = 0 THEN 0 ELSE SqrtNewton(n, SqrtGuess(n))

(***************************************************************************)
(* struct Vector2D                                                         *)
(***************************************************************************)
Vector2D(x_, y_) == [x |-> x_, y |-> y_]

Zero == Vector2D(0, 0)

VAdd(a, b) == Vector2D(a.x + b.x, a.y + b.y)

VSub(a, b) == Vector2D(a.x - b.x, a.y - b.y)

\* operator*(float) and operator*=
VMul(v, scalar) == Vector2D(FMul(v.x, scalar), FMul(v.y, scalar))

\* operator/(float) and operator/=
VDiv(v, scalar) == Vector2D(FDiv(v.x, scalar), FDiv(v.y, scalar))

\* operator/= with a count converted to float: x / n
VDivCount(v, n) == Vector2D(RoundDiv(v.x, n), RoundDiv(v.y, n))

\* sqrt(x*x + y*y).  When the sum of squares leaves the integer range the
\* root is taken of the vector scaled down by k and scaled back, as a float
\* keeps its relative precision.
magnitude(v) ==
    IF SumSq(v.x, v.y) < Huge THEN Sqrt(SumSq(v.x, v.y))
    ELSE LET k == (Max(Abs(v.x), Abs(v.y)) \div 32768) + 1
         IN  k * Sqrt(SumSq(Sign(v.x) * (Abs(v.x) \div k), Sign(v.y) * (Abs(v.y) \div k)))

\* normalize() that never divides.
normalizeNoDivide(v) == v

normalize(v) ==
    LET mag == magnitude(v)
    IN  IF mag > 0 THEN VDiv(v, mag) ELSE v

\* Vector2D::normalized(): it copies the vector into result and then calls
\* result.normalized(), itself, not normalize().  The recursion has no end
\* and no effect, which is undefined: a build either never returns from it
\* (the stack runs out, or the call becomes a loop) or drops the call whose
\* value is unused and returns the copy as it is.
normalizedOutcomes(v) ==
    { [returns |-> FALSE, result |-> v], [returns |-> TRUE, result |-> v] }

\* limit() that rescales every vector to maxMag, the short ones too.
limitRescaleAll(v, maxMag) == VMul(normalize(v), maxMag)

\* limit() that never clamps.
limitNoClamp(v, maxMag) == v

limit(v, maxMag) ==
    IF magnitude(v) > maxMag THEN VMul(normalize(v), maxMag) ELSE v

distance(a, b) == magnitude(VSub(a, b))

\* constexpr PI, TWO_PI
PI == Lit(314159, 100000)

TWO_PI == FMul(Lit(2, 1), PI)

\* cos and sin, in thousandths, of the sixteen directions k * PI / 8.
CosTable ==
    << 1000, 924, 707, 383, 0, -383, -707, -924,
       -1000, -924, -707, -383, 0, 383, 707, 924 >>

SinTable ==
    << 0, 383, 707, 924, 1000, 924, 707, 383,
       0, -383, -707, -924, -1000, -924, -707, -383 >>

\* Vector2D(cos(angle), sin(angle)): the angle is taken to the nearest of the
\* sixteen tabulated directions.
fromAngle(angle) ==
    LET k == (RoundDiv(angle * 16, TWO_PI) % 16) + 1
    IN  Vector2D(Lit(CosTable[k], 1000), Lit(SinTable[k], 1000))

(***************************************************************************)
(* rand(): the C library generator.  Its hidden state is randState; a call *)
(* moves it to NextRand(randState) and returns that value, in              *)
(* 0 .. RAND_MAX.                                                          *)
(***************************************************************************)
RAND_MAX == 8

\* main never calls srand: the generator starts from its default seed.
DefaultSeed == 1

NextRand(s) == (4 * s + 1) % (RAND_MAX + 1)

\* The state after k calls, and the value the k-th call returns.  The calls
\* are taken half by half, and the state between the halves is looked at
\* before the second half begins, so that TLC evaluates hundreds of calls
\* without a deep recursion.
RECURSIVE RandAfter(_, _)
RandAfter(s, k) ==
    IF k = 0 THEN s
    ELSE IF k = 1 THEN NextRand(s)
    ELSE LET mid == RandAfter(s, k \div 2)
         IN  IF mid \in 0..RAND_MAX THEN RandAfter(mid, k - (k \div 2)) ELSE mid

\* static_cast<float>(rand()) / RAND_MAX
RandFraction(rnd) == FDiv(FromInt(rnd), FromInt(RAND_MAX))

(***************************************************************************)
(* class Bird                                                              *)
(***************************************************************************)
\* Bird::Bird(x, y); s is the generator state before the constructor runs,
\* which calls rand() four times: angle, red, green, blue.
NewBird(x_, y_, s) ==
    LET angle == FMul(RandFraction(RandAfter(s, 1)), TWO_PI)
    IN  [ position         |-> Vector2D(x_, y_),
          velocity         |-> VMul(fromAngle(angle), Lit(2, 1)),
          acceleration     |-> Vector2D(0, 0),
          r                |-> Lit(4, 1),
          maxSpeed         |-> Lit(2, 1),
          maxForce         |-> Lit(3, 100),
          separationRadius |-> Lit(25, 1),
          alignmentRadius  |-> Lit(50, 1),
          cohesionRadius   |-> Lit(50, 1),
          red              |-> 150 + (RandAfter(s, 2) % 105),
          green            |-> 100 + (RandAfter(s, 3) % 100),
          blue             |-> 50 + (RandAfter(s, 4) % 100),
          alpha            |-> 255 ]

\* The number of rand() calls of one Bird constructor.
BirdRandCalls == 3 + 1

\* update() that also takes the speed reached as the agent's new maxSpeed.
updateSlowing(b) ==
    LET v == limit(VAdd(b.velocity, b.acceleration), b.maxSpeed)
    IN  [b EXCEPT !.velocity = v,
                  !.position = VAdd(b.position, v),
                  !.acceleration = VMul(b.acceleration, 0),
                  !.maxSpeed = magnitude(v)]

\* update() without the reset of the acceleration.
updateKeepAcceleration(b) ==
    LET v == limit(VAdd(b.velocity, b.acceleration), b.maxSpeed)
    IN  [b EXCEPT !.velocity = v,
                  !.position = VAdd(b.position, v)]

\* update() without the clamp of the velocity.
updateNoLimit(b) ==
    LET v == VAdd(b.velocity, b.acceleration)
    IN  [b EXCEPT !.velocity = v,
                  !.position = VAdd(b.position, v),
                  !.acceleration = VMul(b.acceleration, 0)]

\* Bird::update()
update(b) ==
    LET v == limit(VAdd(b.velocity, b.acceleration), b.maxSpeed)
    IN  [b EXCEPT !.velocity = v,
                  !.position = VAdd(b.position, v),
                  !.acceleration = VMul(b.acceleration, 0)]

\* Bird::seek(target)
seek(b, target) ==
    LET desired == VMul(normalize(VSub(target, b.position)), b.maxSpeed)
    IN  limit(VSub(desired, b.velocity), b.maxForce)

\* Sum of a sequence of [v: vector, c: count] terms (the accumulation loops
\* `steer += diff; count++`).
RECURSIVE SumTerms(_)
SumTerms(ts) ==
    IF ts = << >> THEN [v |-> Zero, c |-> 0]
    ELSE LET rest == SumTerms(Tail(ts))
         IN  [v |-> VAdd(Head(ts).v, rest.v), c |-> Head(ts).c + rest.c]

NoTerm == [v |-> Zero, c |-> 0]

\* Bird::separate(birds)
separate(b, birds) ==
    LET term(other) ==
            LET d == distance(b.position, other.position)
            IN  IF d > 0 /\ d < b.separationRadius
                THEN [v |-> VDiv(normalize(VSub(b.position, other.position)), d),
                      c |-> 1]
                ELSE NoTerm
        acc == SumTerms([j \in 1..Len(birds) |-> term(birds[j])])
        steer == VDivCount(acc.v, acc.c)
    IN  IF acc.c > 0
        THEN IF magnitude(steer) > 0
             THEN limit(VSub(VMul(normalize(steer), b.maxSpeed), b.velocity),
                        b.maxForce)
             ELSE steer
        ELSE acc.v

\* cohesion() without the test of the count: with no neighbour it seeks the
\* empty sum.
cohesionNoGuard(b, birds) ==
    LET term(other) ==
            LET d == distance(b.position, other.position)
            IN  IF d > 0 /\ d < b.cohesionRadius
                THEN [v |-> other.position, c |-> 1]
                ELSE NoTerm
        acc == SumTerms([j \in 1..Len(birds) |-> term(birds[j])])
    IN  IF acc.c > 0 THEN seek(b, VDivCount(acc.v, acc.c)) ELSE seek(b, acc.v)

\* Bird::cohesion(birds)
cohesion(b, birds) ==
    LET term(other) ==
            LET d == distance(b.position, other.position)
            IN  IF d > 0 /\ d < b.cohesionRadius
                THEN [v |-> other.position, c |-> 1]
                ELSE NoTerm
        acc == SumTerms([j \in 1..Len(birds) |-> term(birds[j])])
    IN  IF acc.c > 0 THEN seek(b, VDivCount(acc.v, acc.c)) ELSE Vector2D(0, 0)

\* Bird::align(birds)
align(b, birds) ==
    LET term(other) ==
            LET d == distance(b.position, other.position)
            IN  IF d > 0 /\ d < b.alignmentRadius
                THEN [v |-> other.velocity, c |-> 1]
                ELSE NoTerm
        acc == SumTerms([j \in 1..Len(birds) |-> term(birds[j])])
        sum == VMul(normalize(VDivCount(acc.v, acc.c)), b.maxSpeed)
    IN  IF acc.c > 0 THEN limit(VSub(sum, b.velocity), b.maxForce)
        ELSE Vector2D(0, 0)

\* Bird::environmentalBias(windowWidth, windowHeight)
environmentalBias(b, windowWidth, windowHeight) ==
    LET upperHalf == FMul(FromInt(windowHeight), Lit(3, 10))
        biasY == IF b.position.y > upperHalf
                 THEN FMul(-FDiv(b.position.y - upperHalf, upperHalf), Lit(8, 10))
                 ELSE Lit(15, 100)
        bias == Vector2D(Lit(5, 10), biasY)
        idealY == FMul(FromInt(windowHeight), Lit(2, 10))
        distanceFromIdeal == FDiv(Abs(b.position.y - idealY),
                                  FMul(FromInt(windowHeight), Lit(5, 10)))
        speed == FMul(b.maxSpeed, Lit(3, 10) + FMul(distanceFromIdeal, Lit(5, 10)))
        steer == VSub(VMul(normalize(bias), speed), b.velocity)
    IN  limit(steer, FMul(b.maxForce, Lit(5, 10)))

\* The four weighted forces Bird::flock applies, in the order it applies
\* them.
flockForces(b, birds, windowWidth, windowHeight) ==
    << VMul(separate(b, birds), Lit(15, 10)),
       VMul(align(b, birds), Lit(10, 10)),
       VMul(cohesion(b, birds), Lit(10, 10)),
       VMul(environmentalBias(b, windowWidth, windowHeight), Lit(8, 10)) >>

\* Bird::applyForce(force)
applyForce(b, force) == [b EXCEPT !.acceleration = VAdd(b.acceleration, force)]

\* Bird::flock(birds, windowWidth, windowHeight)
flock(b, birds, windowWidth, windowHeight) ==
    LET f == flockForces(b, birds, windowWidth, windowHeight)
    IN  applyForce(applyForce(applyForce(applyForce(b, f[1]), f[2]), f[3]), f[4])

\* borders() that stops the agent at the edge it crossed instead of moving
\* it to the opposite one.
bordersClamp(b, width, height) ==
    LET x1 == IF b.position.x < -b.r THEN -b.r ELSE b.position.x
        y1 == IF b.position.y < -b.r THEN -b.r ELSE b.position.y
        x2 == IF x1 > FromInt(width) + b.r THEN FromInt(width) + b.r ELSE x1
        y2 == IF y1 > FromInt(height) + b.r THEN FromInt(height) + b.r ELSE y1
    IN  [b EXCEPT !.position = Vector2D(x2, y2)]

\* borders() that moves an agent beyond an edge by the size of the viewport
\* instead of placing it at the opposite edge.
bordersShift(b, width, height) ==
    LET x1 == IF b.position.x < -b.r THEN b.position.x + FromInt(width) ELSE b.position.x
        y1 == IF b.position.y < -b.r THEN b.position.y + FromInt(height) ELSE b.position.y
        x2 == IF x1 > FromInt(width) + b.r THEN x1 - FromInt(width) ELSE x1
        y2 == IF y1 > FromInt(height) + b.r THEN y1 - FromInt(height) ELSE y1
    IN  [b EXCEPT !.position = Vector2D(x2, y2)]

\* Bird::borders(width, height): four independent tests in this order.
borders(b, width, height) ==
    LET x1 == IF b.position.x < -b.r THEN FromInt(width) + b.r ELSE b.position.x
        y1 == IF b.position.y < -b.r THEN FromInt(height) + b.r ELSE b.position.y
        x2 == IF x1 > FromInt(width) + b.r THEN -b.r ELSE x1
        y2 == IF y1 > FromInt(height) + b.r THEN -b.r ELSE y1
    IN  [b EXCEPT !.position = Vector2D(x2, y2)]

(***************************************************************************)
(* FlockingSystem::updateParallel, the body of the force loop for agent i  *)
(* (0-based i of the code is i here, 1-based).  px, py, vx, vy are the     *)
(* snapshot vectors.                                                       *)
(***************************************************************************)
\* The lambda fast_limit(x, y, maxMag) applied to the vector v.
fast_limit(v, maxMag) ==
    LET s2 == SumSq(v.x, v.y)
        m2 == Sq(maxMag)
    IN  IF s2 > m2 /\ s2 > 0
        THEN Vector2D(RoundDiv(v.x * maxMag, Sqrt(s2)),
                      RoundDiv(v.y * maxMag, Sqrt(s2)))
        ELSE v

\* The neighbour scan over j: the three accumulators as [v, c] records.
neighbourScan(i, px, py, vx, vy, sepR2, aliR2, cohR2) ==
    LET dx(j) == px[i] - px[j]
        dy(j) == py[i] - py[j]
        d2(j) == SumSq(dx(j), dy(j))
        sepTerm(j) ==
            IF d2(j) > 0 /\ d2(j) < sepR2
            THEN [v |-> Vector2D(FDiv(FDiv(dx(j), Sqrt(d2(j))), Sqrt(d2(j))),
                                 FDiv(FDiv(dy(j), Sqrt(d2(j))), Sqrt(d2(j)))),
                  c |-> 1]
            ELSE NoTerm
        aliTerm(j) ==
            IF d2(j) > 0 /\ d2(j) < aliR2
            THEN [v |-> Vector2D(vx[j], vy[j]), c |-> 1] ELSE NoTerm
        cohTerm(j) ==
            IF d2(j) > 0 /\ d2(j) < cohR2
            THEN [v |-> Vector2D(px[j], py[j]), c |-> 1] ELSE NoTerm
    IN  [ sep |-> SumTerms([j \in 1..Len(px) |-> sepTerm(j)]),
          ali |-> SumTerms([j \in 1..Len(px) |-> aliTerm(j)]),
          coh |-> SumTerms([j \in 1..Len(px) |-> cohTerm(j)]) ]

\* normalise (s *= 1/sqrt(s2)), scale to maxSpeed, subtract the velocity,
\* fast_limit: the tail shared by the three rules once s2 > 0 is known.
steerFrom(v, vel, maxSpeed, maxMag) ==
    LET s2 == SumSq(v.x, v.y)
        unit == Vector2D(FDiv(v.x, Sqrt(s2)), FDiv(v.y, Sqrt(s2)))
    IN  fast_limit(VSub(VMul(unit, maxSpeed), vel), maxMag)

\* The four weighted contributions added to acc_x, acc_y for agent i, in the
\* order separation, alignment, cohesion, bias.
parallelForces(i, px, py, vx, vy, b, windowHeight, sepR2, aliR2, cohR2) ==
    LET scan == neighbourScan(i, px, py, vx, vy, sepR2, aliR2, cohR2)
        pos == Vector2D(px[i], py[i])
        vel == Vector2D(vx[i], vy[i])
        sepMean == VDivCount(scan.sep.v, scan.sep.c)
        aliMean == VDivCount(scan.ali.v, scan.ali.c)
        cohDiff == VSub(VDivCount(scan.coh.v, scan.coh.c), pos)
        sepF == IF scan.sep.c > 0 /\ SumSq(sepMean.x, sepMean.y) > 0
                THEN VMul(steerFrom(sepMean, vel, b.maxSpeed, b.maxForce), Lit(15, 10))
                ELSE Zero
        aliF == IF scan.ali.c > 0 /\ SumSq(aliMean.x, aliMean.y) > 0
                THEN steerFrom(aliMean, vel, b.maxSpeed, b.maxForce)
                ELSE Zero
        cohF == IF scan.coh.c > 0 /\ SumSq(cohDiff.x, cohDiff.y) > 0
                THEN steerFrom(cohDiff, vel, b.maxSpeed, b.maxForce)
                ELSE Zero
        upperHalf == FMul(FromInt(windowHeight), Lit(3, 10))
        by == IF py[i] > upperHalf
              THEN FMul(-FDiv(py[i] - upperHalf, upperHalf), Lit(8, 10))
              ELSE Lit(15, 100)
        idealY == FMul(FromInt(windowHeight), Lit(2, 10))
        distanceFromIdeal == FDiv(Abs(py[i] - idealY),
                                  FMul(FromInt(windowHeight), Lit(5, 10)))
        speed == FMul(b.maxSpeed, Lit(3, 10) + FMul(distanceFromIdeal, Lit(5, 10)))
        biasV == Vector2D(Lit(5, 10), by)
        biasF == IF SumSq(biasV.x, biasV.y) > 0
                 THEN VMul(steerFrom(biasV, vel, speed, FMul(b.maxForce, Lit(5, 10))),
                           Lit(8, 10))
                 ELSE Zero
    IN  << sepF, aliF, cohF, biasF >>

\* acc_x, acc_y: the sum written to ax[i], ay[i].
parallelAcc(i, px, py, vx, vy, b, windowHeight, sepR2, aliR2, cohR2) ==
    LET f == parallelForces(i, px, py, vx, vy, b, windowHeight, sepR2, aliR2, cohR2)
    IN  VAdd(VAdd(VAdd(f[1], f[2]), f[3]), f[4])

(***************************************************************************)
(* Bounds of the exploration                                               *)
(***************************************************************************)
\* Largest flock explored.
MaxBirds == 3

\* Steps (updateSerial / updateParallel calls) per behaviour.
MaxSteps == 2

\* Population and viewport operations per behaviour.
MaxOps == 3

\* Mouse clicks (pixel coordinates): three points in a row, so that the
\* middle agent's neighbours have their centroid on the agent itself.
Clicks == { <<100, 100>>, <<110, 100>>, <<90, 100>> }

\* Window sizes (width, height) the resize event delivers.
Sizes == { <<200, 120>> }

\* Arguments of addBoids and removeBoids.
AddCounts == { 2 }

RemoveCounts == { 0, 1, MaxBirds }

(***************************************************************************)
(* class Cat.  Its floats are fixed-point numbers like the flock's; frame  *)
(* and tAcc, which count the animation's pictures and which no position or *)
(* arrival reads, are left out.                                            *)
(***************************************************************************)
\* struct Strip: the frame size of every strip main loads, and of the
\* default Strip that cur() falls back to.
Strip == [fw |-> 31, fh |-> 36]

\* `Cat cat; cat.scale = 3.f; cat.speed = 140.f;`
NewCat ==
    [x |-> FromInt(40), y |-> 0, scale |-> FromInt(3), speed |-> FromInt(140),
     arriveEps |-> FromInt(6), state |-> "IdleBack", moving |-> FALSE,
     tx |-> 0, ty |-> 0]

\* s.fw * scale and s.fh * scale
Cat_dw(c) == FMul(FromInt(Strip.fw), c.scale)

Cat_dh(c) == FMul(FromInt(Strip.fh), c.scale)

\* cx and cy of pickWalkState and update
Cat_cx(c) == c.x + FMul(Cat_dw(c), Lit(5, 10))

Cat_cy(c) == c.y + FMul(Cat_dh(c), Lit(5, 10))

\* Cat::placeAtBottom(W, H)
Cat_placeAtBottom(c, W, H) ==
    [c EXCEPT !.y = FromInt(H) - Cat_dh(c) - FromInt(20)]

\* Cat::pickWalkState()
Cat_pickWalkState(c) ==
    LET dx == c.tx - Cat_cx(c)
        dy == c.ty - Cat_cy(c)
    IN  [c EXCEPT !.state = IF Abs(dx) > Abs(dy)
                            THEN IF dx < 0 THEN "WalkLeft" ELSE "WalkRight"
                            ELSE "WalkUp"]

\* Cat::goTo(px, py)
Cat_goTo(c, px_, py_) ==
    Cat_pickWalkState([c EXCEPT !.tx = px_, !.ty = Cat_cy(c), !.moving = TRUE])

\* Cat::update(dt)
Cat_update(c, dt) ==
    IF c.moving
    THEN LET dx == c.tx - Cat_cx(c)
             dy == c.ty - Cat_cy(c)
             d == magnitude(Vector2D(dx, dy))
         IN  IF d <= c.arriveEps
             THEN [c EXCEPT !.moving = FALSE, !.state = "IdleBack"]
             ELSE IF d > Lit(1, 10000)
             THEN LET vx_ == FMul(FDiv(dx, d), c.speed)
                      vy_ == FMul(FDiv(dy, d), c.speed)
                  IN  [c EXCEPT !.x = c.x + FMul(vx_, dt),
                                !.y = c.y + FMul(vy_, dt)]
             ELSE c
    ELSE [c EXCEPT !.state = "IdleBack"]

\* Cat::clampToWindow(W, H): four tests in this order.
Cat_clampToWindow(c, W, H) ==
    LET x1 == IF c.x < 0 THEN 0 ELSE c.x
        y1 == IF c.y < 0 THEN 0 ELSE c.y
        x2 == IF x1 + Cat_dw(c) > FromInt(W) THEN FromInt(W) - Cat_dw(c) ELSE x1
        y2 == IF y1 + Cat_dh(c) > FromInt(H) THEN FromInt(H) - Cat_dh(c) ELSE y1
    IN  [c EXCEPT !.x = x2, !.y = y2]

(***************************************************************************)
(* State                                                                   *)
(*   birds, windowWidth, windowHeight   the fields of FlockingSystem       *)
(*   randState                          the hidden state of rand()         *)
(*   pc, idx                            where main's frame loop is: "idle" *)
(*                                      while it polls events, the loop of *)
(*                                      the running update (and the serial *)
(*                                      loop's index), "render" once the   *)
(*                                      update has returned                *)
(*   done                               the iterations of the current      *)
(*                                      parallel loop that have run        *)
(*   px, py, vx, vy, ax, ay, radii2     the locals of updateParallel       *)
(*   reads, writes                      per iteration of the current       *)
(*                                      parallel loop, the locations it    *)
(*                                      has read and written               *)
(*   moved                              per agent, its position between    *)
(*                                      update() and borders()             *)
(*   last                               the operation that ran last (or is *)
(*                                      running), with its arguments, the  *)
(*                                      state it began in, and the run of  *)
(*                                      updateSerial calls since the last  *)
(*                                      initializeBirds that it belongs to *)
(*   nSteps, nOps                       how many steps / operations ran    *)
(*   argv, argi                         main's arguments (argv[0] first)   *)
(*                                      and parseArgs' loop variable i     *)
(*   opt                                the CLI_Options being filled in:   *)
(*                                      width, height, numBoids,           *)
(*                                      showTrails                         *)
(*   cin                                the lines still to be read from    *)
(*                                      the console                        *)
(*   paused, cat                        main's locals of these names       *)
(*   presses                            how many SDLK_SPACE events main    *)
(*                                      has handled                        *)
(***************************************************************************)
VARIABLES birds, windowWidth, windowHeight, randState, pc, idx, done,
          px, py, vx, vy, ax, ay, radii2, reads, writes,
          moved, last, nSteps, nOps, argv, argi, opt, cin,
          paused, cat, presses

vars == << birds, windowWidth, windowHeight, randState, pc, idx, done,
           px, py, vx, vy, ax, ay, radii2, reads, writes,
           moved, last, nSteps, nOps, argv, argi, opt, cin,
           paused, cat, presses >>

frameVars == << paused, cat, presses >>

mainVars == << argv, argi, opt, cin, frameVars >>

flockVars == << birds, windowWidth, windowHeight, randState >>

localVars == << px, py, vx, vy, ax, ay, radii2 >>

N == Len(birds)

\* No initializeBirds has run, or something other than updateSerial has run
\* since.
NoRun == [ok |-> FALSE, seed |-> 0, k |-> 0, steps |-> 0]

NoOp == [op |-> "none", n |-> 0, x |-> 0, y |-> 0,
         birds |-> << >>, rand |-> 0, w |-> 0, h |-> 0, run |-> NoRun]

\* The run that the operation op_ continues or begins: initializeBirds(n_)
\* begins one from the generator state it finds, updateSerial adds a step to
\* the one under way, every other operation ends it.
runAfter(op_, n_) ==
    IF op_ = "initializeBirds"
    THEN [ok |-> TRUE, seed |-> randState, k |-> n_, steps |-> 0]
    ELSE IF op_ = "updateSerial" /\ last.run.ok
         THEN [last.run EXCEPT !.steps = @ + 1]
         ELSE NoRun

Before(op_, n_, x_, y_) ==
    [op |-> op_, n |-> n_, x |-> x_, y |-> y_,
     birds |-> birds, rand |-> randState, w |-> windowWidth, h |-> windowHeight,
     run |-> runAfter(op_, n_)]

\* FlockingSystem(width, height): main constructs it with the window size
\* it opens, 640 x 480 at the least.
\* main's start-up (parseArgs, the console questions, the construction: see
\* SpecStartup) is over, its arguments and the console consumed.
Init ==
    /\ birds = << >>
    /\ windowWidth = 640
    /\ windowHeight = 480
    /\ randState = DefaultSeed
    /\ pc = "idle"
    /\ idx = 0
    /\ done = {}
    /\ px = << >> /\ py = << >> /\ vx = << >> /\ vy = << >>
    /\ ax = << >> /\ ay = << >>
    /\ radii2 = << >>
    /\ reads = << >> /\ writes = << >>
    /\ moved = << >>
    /\ last = NoOp
    /\ nSteps = 0
    /\ nOps = 0
    /\ argv = << >> /\ argi = 0 /\ cin = << >>
    /\ opt = [width |-> 640, height |-> 480, numBoids |-> 0, showTrails |-> FALSE]
    /\ paused = FALSE /\ presses = 0
    /\ cat = Cat_placeAtBottom(NewCat, 640, 480)

stepIdle == << pc, idx, done, px, py, vx, vy, ax, ay, radii2, reads, writes,
               moved, nSteps >>

(***************************************************************************)
(* Population and viewport operations (called between steps)               *)
(***************************************************************************)
\* FlockingSystem::addBoid(x, y) on the vector bs with generator state s.
addBoidTo(bs, x_, y_, s) == Append(bs, NewBird(x_, y_, s))

\* One iteration of the loop of initializeBirds / addBoids: two rand() calls
\* for x and y, then addBoid.
randomBoid(bs, s, w, h) ==
    addBoidTo(bs,
              FMul(RandFraction(RandAfter(s, 1)), FromInt(w)),
              FMul(RandFraction(RandAfter(s, 2)), FromInt(h)),
              RandAfter(s, 2))

\* The loop `for (i = 0; i < count; i++)` of initializeBirds / addBoids: no
\* iteration for count <= 0; else the first half of the iterations, and
\* after them the rest, from the generator state the first half leaves.
RECURSIVE randomBoids(_, _, _, _, _)
randomBoids(bs, s, count, w, h) ==
    IF count <= 0 THEN bs
    ELSE IF count = 1 THEN randomBoid(bs, s, w, h)
    ELSE randomBoids(bs, s, count \div 2, w, h)
            \o randomBoids(<< >>, RandAfter(s, (count \div 2) * (2 + BirdRandCalls)),
                           count - (count \div 2), w, h)

randAfterBoids(s, count) ==
    IF count <= 0 THEN s ELSE RandAfter(s, count * (2 + BirdRandCalls))

\* addBoid called from a handler that may run at any point of the frame.
AddBoidAnytime ==
    /\ nOps < MaxOps /\ N < MaxBirds
    /\ \E c \in Clicks :
          /\ birds' = addBoidTo(birds, FromInt(c[1]), FromInt(c[2]), randState)
          /\ last' = Before("addBoid", 1, c[1], c[2])
    /\ randState' = RandAfter(randState, BirdRandCalls)
    /\ nOps' = nOps + 1
    /\ UNCHANGED << windowWidth, windowHeight, stepIdle, mainVars >>

\* FlockingSystem::addBoid(x, y), from a mouse click.
AddBoid ==
    /\ pc = "idle" /\ nOps < MaxOps /\ N < MaxBirds
    /\ \E c \in Clicks :
          /\ birds' = addBoidTo(birds, FromInt(c[1]), FromInt(c[2]), randState)
          /\ last' = Before("addBoid", 1, c[1], c[2])
    /\ randState' = RandAfter(randState, BirdRandCalls)
    /\ nOps' = nOps + 1
    /\ UNCHANGED << windowWidth, windowHeight, stepIdle, mainVars >>

\* initializeBirds without birds.clear().
InitializeBirdsNoClear ==
    /\ pc = "idle" /\ nOps < MaxOps
    /\ \E numBirds \in 0..MaxBirds :
          /\ birds' = randomBoids(birds, randState, numBirds, windowWidth, windowHeight)
          /\ randState' = randAfterBoids(randState, numBirds)
          /\ last' = Before("initializeBirds", numBirds, 0, 0)
    /\ nOps' = nOps + 1
    /\ UNCHANGED << windowWidth, windowHeight, stepIdle, mainVars >>

\* FlockingSystem::initializeBirds(numBirds)
InitializeBirds ==
    /\ pc = "idle" /\ nOps < MaxOps
    /\ \E numBirds \in 0..MaxBirds :
          /\ birds' = randomBoids(<< >>, randState, numBirds, windowWidth, windowHeight)
          /\ randState' = randAfterBoids(randState, numBirds)
          /\ last' = Before("initializeBirds", numBirds, 0, 0)
    /\ nOps' = nOps + 1
    /\ UNCHANGED << windowWidth, windowHeight, stepIdle, mainVars >>

\* FlockingSystem::addBoids(count)
AddBoids ==
    /\ pc = "idle" /\ nOps < MaxOps
    /\ \E count \in AddCounts :
          /\ N + count <= MaxBirds
          /\ birds' = randomBoids(birds, randState, count, windowWidth, windowHeight)
          /\ randState' = randAfterBoids(randState, count)
          /\ last' = Before("addBoids", count, 0, 0)
    /\ nOps' = nOps + 1
    /\ UNCHANGED << windowWidth, windowHeight, stepIdle, mainVars >>

\* FlockingSystem::removeBoids(count), count >= 0.
removeBoidsFrom(bs, count) ==
    IF count >= Len(bs) THEN << >> ELSE SubSeq(bs, 1, Len(bs) - count)

RemoveBoids ==
    /\ pc = "idle" /\ nOps < MaxOps
    /\ \E count \in RemoveCounts :
          /\ birds' = removeBoidsFrom(birds, count)
          /\ last' = Before("removeBoids", count, 0, 0)
    /\ nOps' = nOps + 1
    /\ UNCHANGED << windowWidth, windowHeight, randState, stepIdle, mainVars >>

\* removeBoids(count) with count < 0 <= size: the else branch runs
\* birds.erase(birds.end() - count, birds.end()), a range that begins past
\* the end of the vector.  The behaviour is undefined; the outcomes modelled
\* are the vector left as it was, and the vector's end moved to the start of
\* the range (what erase does when it trusts its arguments), which takes in
\* -count objects from the storage behind the last agent.  Nothing is said
\* of the program after that (pc = "undefined").
NegativeCounts == { -1 }

StaleBirds == { NewBird(0, 0, s) : s \in 0..1 }

RemoveBoidsUndefined ==
    /\ pc = "idle" /\ nOps < MaxOps
    /\ \E count \in NegativeCounts :
          /\ \/ birds' = birds
             \/ \E g \in StaleBirds : birds' = birds \o [k \in 1..(-count) |-> g]
          /\ last' = Before("removeBoids", count, 0, 0)
    /\ pc' = "undefined"
    /\ nOps' = nOps + 1
    /\ UNCHANGED << windowWidth, windowHeight, randState, idx, done, localVars,
                    reads, writes, moved, nSteps, mainVars >>

\* resize() that stores the width only.
ResizeWidthOnly ==
    /\ pc = "idle" /\ nOps < MaxOps
    /\ \E sz \in Sizes :
          /\ windowWidth' = sz[1]
          /\ windowHeight' = windowHeight
          /\ last' = Before("resize", 0, sz[1], sz[2])
    /\ nOps' = nOps + 1
    /\ UNCHANGED << birds, randState, stepIdle, mainVars >>

\* FlockingSystem::resize(width, height)
Resize ==
    /\ pc = "idle" /\ nOps < MaxOps
    /\ \E sz \in Sizes :
          /\ windowWidth' = sz[1]
          /\ windowHeight' = sz[2]
          /\ last' = Before("resize", 0, sz[1], sz[2])
    /\ nOps' = nOps + 1
    /\ UNCHANGED << birds, randState, stepIdle, mainVars >>

(***************************************************************************)
(* FlockingSystem::updateSerial: two range-for loops over birds            *)
(***************************************************************************)
\* updateSerial that draws from rand() on entry.
BeginSerialRand ==
    /\ pc = "idle" /\ nSteps < MaxSteps
    /\ last' = Before("updateSerial", 0, 0, 0)
    /\ nSteps' = nSteps + 1
    /\ moved' = << >>
    /\ randState' = NextRand(randState)
    /\ IF N = 0
       THEN pc' = "render" /\ idx' = 0
       ELSE pc' = "flockLoop" /\ idx' = 1
    /\ UNCHANGED << birds, windowWidth, windowHeight, done, localVars, reads,
                    writes, nOps, mainVars >>

BeginSerial ==
    /\ pc = "idle" /\ nSteps < MaxSteps
    /\ last' = Before("updateSerial", 0, 0, 0)
    /\ nSteps' = nSteps + 1
    /\ moved' = << >>
    /\ IF N = 0
       THEN pc' = "render" /\ idx' = 0
       ELSE pc' = "flockLoop" /\ idx' = 1
    /\ UNCHANGED << flockVars, done, localVars, reads, writes, nOps, mainVars >>

\* A single loop that integrates each agent right after computing its force.
SerialFlockInterleaved ==
    /\ pc = "flockLoop" /\ windowHeight # 0
    /\ birds' = [birds EXCEPT ![idx] =
                    borders(update(flock(birds[idx], birds, windowWidth, windowHeight)),
                            windowWidth, windowHeight)]
    /\ IF idx = N
       THEN pc' = "updateLoop" /\ idx' = 1
       ELSE pc' = pc /\ idx' = idx + 1
    /\ UNCHANGED << windowWidth, windowHeight, randState, done, localVars,
                    reads, writes, moved, last, nSteps, nOps, mainVars >>

\* One iteration of `for (auto& bird : birds) bird.flock(birds, ...)`.  With
\* windowHeight = 0 the bias divides by zero and the floats it yields are
\* infinities and NaNs, which the fixed-point numbers do not represent: see
\* DivideByZero.
SerialFlock ==
    /\ pc = "flockLoop" /\ windowHeight # 0
    /\ birds' = [birds EXCEPT ![idx] = flock(birds[idx], birds, windowWidth, windowHeight)]
    /\ IF idx = N
       THEN pc' = "updateLoop" /\ idx' = 1
       ELSE pc' = pc /\ idx' = idx + 1
    /\ UNCHANGED << windowWidth, windowHeight, randState, done, localVars,
                    reads, writes, moved, last, nSteps, nOps, mainVars >>

\* One iteration of `for (auto& boid : birds) { boid.update(); boid.borders(..); }`.
SerialUpdate ==
    /\ pc = "updateLoop"
    /\ LET b1 == update(birds[idx])
       IN  /\ moved' = (idx :> b1.position) @@ moved
           /\ birds' = [birds EXCEPT ![idx] = borders(b1, windowWidth, windowHeight)]
    /\ IF idx = N
       THEN pc' = "render" /\ idx' = 0
       ELSE pc' = pc /\ idx' = idx + 1
    /\ UNCHANGED << windowWidth, windowHeight, randState, done, localVars,
                    reads, writes, last, nSteps, nOps, mainVars >>

(***************************************************************************)
(* FlockingSystem::updateParallel: three `omp parallel for` loops.  The    *)
(* iterations of one loop run in any order; the loop ends (its implicit    *)
(* barrier) when all of them have run.                                     *)
(***************************************************************************)
Zeros(n) == [i \in 1..n |-> 0]

NoAccess(n) == [i \in 1..n |-> {}]

Loc(name, i) == << name, i >>

\* updateParallel without `if (n == 0) return;`.
BeginParallelNoGuard ==
    /\ pc = "idle" /\ nSteps < MaxSteps
    /\ last' = Before("updateParallel", 0, 0, 0)
    /\ nSteps' = nSteps + 1
    /\ moved' = << >>
    /\ pc' = "snapshot"
    /\ px' = Zeros(N) /\ py' = Zeros(N) /\ vx' = Zeros(N) /\ vy' = Zeros(N)
    /\ reads' = NoAccess(N) /\ writes' = NoAccess(N)
    /\ UNCHANGED << flockVars, idx, done, ax, ay, radii2, nOps, mainVars >>

BeginParallel ==
    /\ pc = "idle" /\ nSteps < MaxSteps
    /\ last' = Before("updateParallel", 0, 0, 0)
    /\ nSteps' = nSteps + 1
    /\ moved' = << >>
    /\ IF N = 0
       THEN /\ pc' = "render"
            /\ UNCHANGED << px, py, vx, vy, reads, writes, mainVars >>
       ELSE /\ pc' = "snapshot"
            /\ px' = Zeros(N) /\ py' = Zeros(N) /\ vx' = Zeros(N) /\ vy' = Zeros(N)
            /\ reads' = NoAccess(N) /\ writes' = NoAccess(N)
    /\ UNCHANGED << flockVars, idx, done, ax, ay, radii2, nOps, mainVars >>

\* Iteration i of the snapshot loop.
Snapshot(i) ==
    /\ pc = "snapshot" /\ i \in (1..N) \ done
    /\ px' = [px EXCEPT ![i] = birds[i].position.x]
    /\ py' = [py EXCEPT ![i] = birds[i].position.y]
    /\ vx' = [vx EXCEPT ![i] = birds[i].velocity.x]
    /\ vy' = [vy EXCEPT ![i] = birds[i].velocity.y]
    /\ reads' = [reads EXCEPT ![i] = { Loc("position", i), Loc("velocity", i) }]
    /\ writes' = [writes EXCEPT ![i] =
                     { Loc("px", i), Loc("py", i), Loc("vx", i), Loc("vy", i) }]
    /\ done' = done \cup {i}
    /\ UNCHANGED << flockVars, pc, idx, ax, ay, radii2, moved, last, nSteps, nOps, mainVars >>

\* End of the snapshot loop; ax, ay are allocated and the squared radii of
\* birds[0] cached.
SnapshotBarrier ==
    /\ pc = "snapshot" /\ done = 1..N
    /\ ax' = Zeros(N) /\ ay' = Zeros(N)
    /\ radii2' = [ sep |-> Sq(birds[1].separationRadius),
                   ali |-> Sq(birds[1].alignmentRadius),
                   coh |-> Sq(birds[1].cohesionRadius) ]
    /\ pc' = "force"
    /\ done' = {}
    /\ reads' = NoAccess(N) /\ writes' = NoAccess(N)
    /\ UNCHANGED << flockVars, idx, px, py, vx, vy, moved, last, nSteps, nOps, mainVars >>

\* A force loop that adds the force to the agent's acceleration itself.
ForceIntoAgent(i) ==
    /\ pc = "force" /\ i \in (1..N) \ done /\ windowHeight # 0
    /\ birds' = [birds EXCEPT ![i] =
                    applyForce(birds[i],
                               parallelAcc(i, px, py, vx, vy, birds[i], windowHeight,
                                           radii2.sep, radii2.ali, radii2.coh))]
    /\ reads' = [reads EXCEPT ![i] =
                    { Loc(a, j) : a \in {"px", "py", "vx", "vy"}, j \in 1..N }
                    \cup { Loc("maxSpeed", i), Loc("maxForce", i),
                           Loc("windowHeight", 0), Loc("acceleration", i) }]
    /\ writes' = [writes EXCEPT ![i] = { Loc("acceleration", i) }]
    /\ done' = done \cup {i}
    /\ UNCHANGED << windowWidth, windowHeight, randState, pc, idx, localVars,
                    moved, last, nSteps, nOps, mainVars >>

\* Iteration i of the force loop.
Force(i) ==
    /\ pc = "force" /\ i \in (1..N) \ done /\ windowHeight # 0
    /\ LET acc == parallelAcc(i, px, py, vx, vy, birds[i], windowHeight,
                              radii2.sep, radii2.ali, radii2.coh)
       IN  /\ ax' = [ax EXCEPT ![i] = acc.x]
           /\ ay' = [ay EXCEPT ![i] = acc.y]
    /\ reads' = [reads EXCEPT ![i] =
                    { Loc(a, j) : a \in {"px", "py", "vx", "vy"}, j \in 1..N }
                    \cup { Loc("maxSpeed", i), Loc("maxForce", i),
                           Loc("windowHeight", 0) }]
    /\ writes' = [writes EXCEPT ![i] = { Loc("ax", i), Loc("ay", i) }]
    /\ done' = done \cup {i}
    /\ UNCHANGED << flockVars, pc, idx, px, py, vx, vy, radii2, moved, last,
                    nSteps, nOps, mainVars >>

\* A force loop without its barrier (`nowait`): integration may begin while
\* iterations of the force loop are still to run.
ForceBarrierNoWait ==
    /\ pc = "force"
    /\ pc' = "integrate"
    /\ done' = {}
    /\ reads' = NoAccess(N) /\ writes' = NoAccess(N)
    /\ UNCHANGED << flockVars, idx, localVars, moved, last, nSteps, nOps, mainVars >>

\* End of the force loop.
ForceBarrier ==
    /\ pc = "force" /\ done = 1..N
    /\ pc' = "integrate"
    /\ done' = {}
    /\ reads' = NoAccess(N) /\ writes' = NoAccess(N)
    /\ UNCHANGED << flockVars, idx, localVars, moved, last, nSteps, nOps, mainVars >>

\* An iteration of the integration loop that calls update() twice.
IntegrateTwice(i) ==
    /\ pc = "integrate" /\ i \in (1..N) \ done
    /\ LET b0 == applyForce(birds[i], Vector2D(ax[i], ay[i]))
           b1 == update(update(b0))
       IN  /\ moved' = (i :> b1.position) @@ moved
           /\ birds' = [birds EXCEPT ![i] = borders(b1, windowWidth, windowHeight)]
    /\ reads' = [reads EXCEPT ![i] =
                    { Loc("ax", i), Loc("ay", i), Loc("position", i),
                      Loc("velocity", i), Loc("acceleration", i),
                      Loc("maxSpeed", i), Loc("r", i),
                      Loc("windowWidth", 0), Loc("windowHeight", 0) }]
    /\ writes' = [writes EXCEPT ![i] =
                     { Loc("position", i), Loc("velocity", i), Loc("acceleration", i) }]
    /\ done' = done \cup {i}
    /\ UNCHANGED << windowWidth, windowHeight, randState, pc, idx, localVars,
                    last, nSteps, nOps, mainVars >>

\* Iteration i of the integration loop.
Integrate(i) ==
    /\ pc = "integrate" /\ i \in (1..N) \ done
    /\ LET b0 == applyForce(birds[i], Vector2D(ax[i], ay[i]))
           b1 == update(b0)
       IN  /\ moved' = (i :> b1.position) @@ moved
           /\ birds' = [birds EXCEPT ![i] = borders(b1, windowWidth, windowHeight)]
    /\ reads' = [reads EXCEPT ![i] =
                    { Loc("ax", i), Loc("ay", i), Loc("position", i),
                      Loc("velocity", i), Loc("acceleration", i),
                      Loc("maxSpeed", i), Loc("r", i),
                      Loc("windowWidth", 0), Loc("windowHeight", 0) }]
    /\ writes' = [writes EXCEPT ![i] =
                     { Loc("position", i), Loc("velocity", i), Loc("acceleration", i) }]
    /\ done' = done \cup {i}
    /\ UNCHANGED << windowWidth, windowHeight, randState, pc, idx, localVars,
                    last, nSteps, nOps, mainVars >>

\* End of the integration loop; updateParallel returns and its locals die.
EndParallel ==
    /\ pc = "integrate" /\ done = 1..N
    /\ pc' = "render"
    /\ done' = {}
    /\ px' = << >> /\ py' = << >> /\ vx' = << >> /\ vy' = << >>
    /\ ax' = << >> /\ ay' = << >>
    /\ radii2' = << >>
    /\ reads' = << >> /\ writes' = << >>
    /\ UNCHANGED << flockVars, idx, moved, last, nSteps, nOps, mainVars >>

(***************************************************************************)
(* Statistics (const member functions).  The accumulators are doubles: a   *)
(* sum of floats is exact in them, and the quotient by the size is rounded *)
(* once, when it is converted to float.                                    *)
(***************************************************************************)
RECURSIVE SumSeq(_)
SumSeq(xs) == IF xs = << >> THEN 0 ELSE Head(xs) + SumSeq(Tail(xs))

\* FlockingSystem::getAverageSpeed()
getAverageSpeed(bs) ==
    IF bs = << >> THEN 0
    ELSE RoundDiv(SumSeq([i \in 1..Len(bs) |-> magnitude(bs[i].velocity)]), Len(bs))

\* getCoherence() that returns the total of the distances.
getCoherenceTotal(bs) ==
    LET n == Len(bs)
        cx == RoundDiv(SumSeq([i \in 1..n |-> bs[i].position.x]), n)
        cy == RoundDiv(SumSeq([i \in 1..n |-> bs[i].position.y]), n)
    IN  IF n < 2 THEN 0
        ELSE SumSeq([i \in 1..n |->
                 magnitude(Vector2D(bs[i].position.x - cx, bs[i].position.y - cy))])

\* FlockingSystem::getCoherence()
getCoherence(bs) ==
    LET n == Len(bs)
        cx == RoundDiv(SumSeq([i \in 1..n |-> bs[i].position.x]), n)
        cy == RoundDiv(SumSeq([i \in 1..n |-> bs[i].position.y]), n)
        totalDist == SumSeq([i \in 1..n |->
                        magnitude(Vector2D(bs[i].position.x - cx,
                                           bs[i].position.y - cy))])
    IN  IF n < 2 THEN 0 ELSE RoundDiv(totalDist, n)

(***************************************************************************)
(* The rest of a frame of main's loop.  After the event loop the frame     *)
(* calls the update (BeginSerial / BeginParallel above) unless paused,     *)
(* then draws; the overlay calls getBoidCount, getAverageSpeed and         *)
(* getCoherence, whose values go to the screen.                            *)
(***************************************************************************)
\* `if (!paused)` fails: the frame goes from the event loop to drawing.
SkipUpdate ==
    /\ pc = "idle"
    /\ pc' = "render"
    /\ UNCHANGED << flockVars, idx, done, localVars, reads, writes, moved, last,
                    nSteps, nOps, mainVars >>

\* Drawing and the statistics overlay; the next frame polls events.
Render ==
    /\ pc = "render"
    /\ pc' = "idle"
    /\ UNCHANGED << flockVars, idx, done, localVars, reads, writes, moved, last,
                    nSteps, nOps, mainVars >>

Next ==
    \/ AddBoid
    \/ InitializeBirds
    \/ AddBoids
    \/ RemoveBoids
    \/ Resize
    \/ BeginSerial
    \/ SerialFlock
    \/ SerialUpdate
    \/ BeginParallel
    \/ \E i \in 1..MaxBirds + 1 : Snapshot(i)
    \/ SnapshotBarrier
    \/ \E i \in 1..MaxBirds + 1 : Force(i)
    \/ ForceBarrier
    \/ \E i \in 1..MaxBirds + 1 : Integrate(i)
    \/ EndParallel
    \/ SkipUpdate
    \/ Render

\* The statements of a step that has begun.
StepNext ==
    \/ SerialFlock
    \/ SerialUpdate
    \/ \E i \in 1..MaxBirds + 1 : Snapshot(i)
    \/ SnapshotBarrier
    \/ \E i \in 1..MaxBirds + 1 : Force(i)
    \/ ForceBarrier
    \/ \E i \in 1..MaxBirds + 1 : Integrate(i)
    \/ EndParallel

\* SDL_WINDOWEVENT_RESIZED: main passes event.window.data1 and data2 (Sint32)
\* to resize() as they come.  EventSizes holds a size the window system
\* reports for a window dragged shut.
EventSizes == { << 0, 0 >> }

ResizeAny ==
    /\ pc = "idle" /\ nOps < MaxOps
    /\ \E sz \in EventSizes :
          /\ windowWidth' = sz[1]
          /\ windowHeight' = sz[2]
          /\ last' = Before("resize", 0, sz[1], sz[2])
    /\ nOps' = nOps + 1
    /\ UNCHANGED << birds, randState, stepIdle, mainVars >>

\* flock() or the force loop runs with windowHeight = 0: the environmental
\* bias divides by windowHeight * 0.3f or windowHeight * 0.5f.  The agent's
\* acceleration, then its velocity and position, are NaN from here on; the
\* model does not follow the floats there (pc = "nan").
DivideByZero ==
    /\ pc \in {"flockLoop", "force"} /\ windowHeight = 0
    /\ pc' = "nan"
    /\ UNCHANGED << flockVars, idx, done, localVars, reads, writes, moved, last,
                    nSteps, nOps, mainVars >>

\* The program with resize events of any size.
NextAnySize == Next \/ ResizeAny \/ DivideByZero

SpecAnySize == Init /\ [][NextAnySize]_vars

\* The program with removeBoids called with any int.
NextAnyCount == Next \/ RemoveBoidsUndefined

SpecAnyCount == Init /\ [][NextAnyCount]_vars

Spec == Init /\ [][Next]_vars

\* An update has begun and has not returned.
StepUnderWay == pc \in {"flockLoop", "updateLoop", "snapshot", "force", "integrate"}

\* The running step is not starved: the serial loops are straight-line code
\* of the one thread of main, and the OpenMP runtime gives every iteration of
\* a parallel loop to a thread that runs it.  This is WF_vars(StepNext) with
\* ENABLED <<StepNext>>_vars written as the state predicate it equals: a
\* statement of the step can run exactly while a step is under way.
StepFair == []<>(~StepUnderWay) \/ []<><<StepNext>>_vars

\* The frames that follow flock.initializeBirds(k) at startup when no event
\* arrives and the simulation is not paused: step, draw, step, draw.  Once
\* the update has returned the frame goes on to draw.
InitStep ==
    \E k \in 0..MaxBirds :
       /\ birds = randomBoids(<< >>, DefaultSeed, k, 640, 480)
       /\ windowWidth = 640
       /\ windowHeight = 480
       /\ randState = randAfterBoids(DefaultSeed, k)
       /\ pc = "idle"
       /\ idx = 0
       /\ done = {}
       /\ px = << >> /\ py = << >> /\ vx = << >> /\ vy = << >>
       /\ ax = << >> /\ ay = << >>
       /\ radii2 = << >>
       /\ reads = << >> /\ writes = << >>
       /\ moved = << >>
       /\ last = [op |-> "initializeBirds", n |-> k, x |-> 0, y |-> 0,
                  birds |-> << >>, rand |-> DefaultSeed, w |-> 640, h |-> 480,
                  run |-> [ok |-> TRUE, seed |-> DefaultSeed, k |-> k, steps |-> 0]]
       /\ nSteps = 0
       /\ nOps = 1
       /\ argv = << >> /\ argi = 0 /\ cin = << >>
       /\ opt = [width |-> 640, height |-> 480, numBoids |-> k, showTrails |-> FALSE]
       /\ paused = FALSE /\ presses = 0
       /\ cat = Cat_placeAtBottom(NewCat, 640, 480)

NextStep == BeginSerial \/ BeginParallel \/ StepNext \/ Render

StepSpec == InitStep /\ [][NextStep]_vars /\ StepFair /\ WF_vars(Render)

(***************************************************************************)
(* main's start-up: parseArgs, the console questions, the construction of  *)
(* the flock.  A string is the sequence of its characters.                 *)
(***************************************************************************)
INT_MAX == 2147483647

INT_MIN == -INT_MAX - 1

Digits == << "0", "1", "2", "3", "4", "5", "6", "7", "8", "9" >>

IsDigit(c) == \E k \in 1..10 : Digits[k] = c

DigitValue(c) == (CHOOSE k \in 1..10 : Digits[k] = c) - 1

\* The whitespace a formatted extraction skips.
RECURSIVE skipWs(_)
skipWs(s) == IF s # << >> /\ Head(s) = " " THEN skipWs(Tail(s)) ELSE s

\* The digits s begins with.
RECURSIVE digitPrefix(_)
digitPrefix(s) ==
    IF s # << >> /\ IsDigit(Head(s)) THEN << Head(s) >> \o digitPrefix(Tail(s))
    ELSE << >>

\* The value of the digits ds after val, of sign sgn; out of the range of
\* int the extraction fails and stores the nearest limit.
RECURSIVE accumulate(_, _, _)
accumulate(ds, val, sgn) ==
    IF ds = << >> THEN [ok |-> TRUE, out |-> val]
    ELSE LET digit == DigitValue(Head(ds))
             room == IF sgn < 0 /\ digit >= 1 THEN INT_MAX - (digit - 1)
                     ELSE INT_MAX - digit
         IN  IF Abs(val) > room \div 10
             THEN [ok |-> FALSE, out |-> IF sgn < 0 THEN INT_MIN ELSE INT_MAX]
             ELSE accumulate(Tail(ds), val * 10 + sgn * digit, sgn)

\* parseInt(s, out): `iss >> out; return !iss.fail()`, as [ok, out].  The
\* extraction skips whitespace, reads a sign and the digits that follow and
\* leaves the rest unread; with no digit it fails and stores 0; with nothing
\* but whitespace it fails and stores nothing.  (s is never null here.)
parseInt(s, out) ==
    LET t == skipWs(s)
        signed == t # << >> /\ Head(t) \in { "-", "+" }
        sgn == IF signed /\ Head(t) = "-" THEN -1 ELSE 1
        ds == digitPrefix(IF signed THEN Tail(t) ELSE t)
    IN  IF t = << >> THEN [ok |-> FALSE, out |-> out]
        ELSE IF ds = << >> THEN [ok |-> FALSE, out |-> 0]
        ELSE accumulate(ds, 0, sgn)

KeyWidth == << "-", "-", "w", "i", "d", "t", "h" >>

KeyHeight == << "-", "-", "h", "e", "i", "g", "h", "t" >>

KeyBoids == << "-", "-", "b", "o", "i", "d", "s" >>

KeyTrails == << "-", "-", "t", "r", "a", "i", "l", "s" >>

HelpKeys == { << "-", "?" >>, << "-", "-", "h", "e", "l", "p" >> }

\* a.rfind(prefix, 0) == 0
StartsWith(a, prefix) ==
    Len(a) >= Len(prefix) /\ SubSeq(a, 1, Len(prefix)) = prefix

argc == Len(argv)

\* argv[k], k from 0
ArgAt(k) == argv[k + 1]

\* The lambda eat(key) of parseArgs with a the current argument and i the
\* loop variable: the string it returns and i afterwards.
eat(key, a, i) ==
    IF a = key /\ i + i < argc THEN [v |-> ArgAt(i + 1), i |-> i + 1]
    ELSE IF StartsWith(a, key \o << "=" >>)
         THEN [v |-> SubSeq(a, Len(key) + 2, Len(a)), i |-> i]
         ELSE [v |-> << >>, i |-> i]

\* parseInt(v, opt.numBoids) with no test of the result or of the value.
parseArgsBoids(v) == parseInt(v, opt.numBoids).out

\* One iteration of the loop of parseArgs.  Of CLI_Options width, height,
\* numBoids and showTrails are kept; the flags that set its other booleans
\* leave these alone, like an argument that matches nothing.
ParseArg ==
    /\ pc = "parseArgs" /\ argi < argc
    /\ LET a == ArgAt(argi)
           num == parseInt(a, 0)
           w == eat(KeyWidth, a, argi)
           h == eat(KeyHeight, a, w.i)
           b == eat(KeyBoids, a, h.i)
       IN  IF num.ok /\ num.out > 0
           THEN /\ opt' = [opt EXCEPT !.numBoids = num.out]
                /\ argi' = argi + 1 /\ pc' = pc
           ELSE IF w.v # << >>
           THEN /\ opt' = [opt EXCEPT !.width = parseInt(w.v, opt.width).out]
                /\ argi' = w.i + 1 /\ pc' = pc
           ELSE IF h.v # << >>
           THEN /\ opt' = [opt EXCEPT !.height = parseInt(h.v, opt.height).out]
                /\ argi' = h.i + 1 /\ pc' = pc
           ELSE IF b.v # << >>
           THEN /\ opt' = [opt EXCEPT !.numBoids = parseArgsBoids(b.v)]
                /\ argi' = b.i + 1 /\ pc' = pc
           ELSE IF a = KeyTrails
           THEN /\ opt' = [opt EXCEPT !.showTrails = TRUE]
                /\ argi' = b.i + 1 /\ pc' = pc
           ELSE IF a \in HelpKeys
           THEN pc' = "exited" /\ UNCHANGED << opt, argi >>
           ELSE /\ argi' = b.i + 1 /\ pc' = pc /\ UNCHANGED opt
    /\ UNCHANGED << flockVars, idx, done, localVars, reads, writes, moved, last,
                    nSteps, nOps, argv, cin, frameVars >>

\* parseArgs returns opt.
ParseArgsReturn ==
    /\ pc = "parseArgs" /\ argi >= argc
    /\ pc' = "validate"
    /\ UNCHANGED << flockVars, idx, done, localVars, reads, writes, moved, last,
                    nSteps, nOps, mainVars >>

\* askInt(prompt, minVal, fallback) reading the console lines: the value it
\* returns and the lines left.  At the end of the input getline leaves the
\* line empty.
RECURSIVE askInt(_, _, _)
askInt(lines, minVal, fallback) ==
    IF lines = << >> THEN [v |-> fallback, rest |-> lines]
    ELSE IF Head(lines) = << >> THEN [v |-> fallback, rest |-> Tail(lines)]
    ELSE LET r == parseInt(Head(lines), 0)
         IN  IF r.ok /\ r.out >= minVal THEN [v |-> r.out, rest |-> Tail(lines)]
             ELSE askInt(Tail(lines), minVal, fallback)

\* main: the questions for a width or height that is not positive, then the
\* least window size.
Validate ==
    /\ pc = "validate"
    /\ LET askW == IF opt.width <= 0 THEN askInt(cin, 640, 1280)
                   ELSE [v |-> opt.width, rest |-> cin]
           askH == IF opt.height <= 0 THEN askInt(askW.rest, 480, 720)
                   ELSE [v |-> opt.height, rest |-> askW.rest]
       IN  /\ opt' = [opt EXCEPT !.width = Max(askW.v, 640),
                                 !.height = Max(askH.v, 480)]
           /\ cin' = askH.rest
    /\ pc' = "sdl"
    /\ UNCHANGED << flockVars, idx, done, localVars, reads, writes, moved, last,
                    nSteps, nOps, argv, argi, frameVars >>

\* SDL_Init, SDL_CreateWindow or SDL_CreateRenderer fails: main returns 1.
SDLFails ==
    /\ pc = "sdl"
    /\ pc' = "exited"
    /\ UNCHANGED << flockVars, idx, done, localVars, reads, writes, moved, last,
                    nSteps, nOps, mainVars >>

\* SDL is up: the cat is set up and placed, then
\* FlockingSystem flock(opt.width, opt.height)
Construct ==
    /\ pc = "sdl"
    /\ cat' = Cat_placeAtBottom(cat, opt.width, opt.height)
    /\ windowWidth' = opt.width
    /\ windowHeight' = opt.height
    /\ birds' = << >>
    /\ pc' = "constructed"
    /\ UNCHANGED << randState, idx, done, localVars, reads, writes, moved, last,
                    nSteps, nOps, argv, argi, opt, cin, paused, presses >>

\* flock.initializeBirds(opt.numBoids).  With a negative count
\* birds.reserve(numBirds) is asked for more than max_size() elements and
\* throws std::length_error, which nothing catches: the program terminates.
InitialBirds ==
    /\ pc = "constructed"
    /\ last' = Before("initializeBirds", opt.numBoids, 0, 0)
    /\ nOps' = nOps + 1
    /\ IF opt.numBoids < 0
       THEN /\ pc' = "terminated"
            /\ birds' = << >>
            /\ UNCHANGED randState
       ELSE /\ pc' = "idle"
            /\ birds' = randomBoids(<< >>, randState, opt.numBoids,
                                    windowWidth, windowHeight)
            /\ randState' = randAfterBoids(randState, opt.numBoids)
    /\ UNCHANGED << windowWidth, windowHeight, idx, done, localVars, reads, writes,
                    moved, nSteps, mainVars >>

\* Most arguments after the program's name.
MaxArgs == 2

Program == << "f" >>

\* The arguments tried: 3, --boids, -5, --boids=-5, --width=800, --height,
\* 0, --boids=x, --help.
Arguments ==
    { << "3" >>, KeyBoids, << "-", "5" >>, KeyBoids \o << "=", "-", "5" >>,
      KeyWidth \o << "=", "8", "0", "0" >>, KeyHeight, << "0" >>,
      KeyBoids \o << "=", "x" >>, << "-", "-", "h", "e", "l", "p" >> }

\* The example of the help text:
\* flocking 500 --width 1920 --height 1080 --trails
DocumentedExample ==
    << Program, << "5", "0", "0" >>, KeyWidth, << "1", "9", "2", "0" >>,
       KeyHeight, << "1", "0", "8", "0" >>, KeyTrails >>

ArgLists ==
    { << Program >> \o rest :
         rest \in UNION { [1..k -> Arguments] : k \in 0..MaxArgs } }
       \cup { DocumentedExample }

\* The console inputs tried: none; 700 and 500; 5, an empty line, x and 900.
ConsoleInputs ==
    { << >>,
      << << "7", "0", "0" >>, << "5", "0", "0" >> >>,
      << << "5" >>, << >>, << "x" >>, << "9", "0", "0" >> >> }

\* main is entered: opt is a default CLI_Options, no flock exists.
InitStartup ==
    /\ argv \in ArgLists
    /\ cin \in ConsoleInputs
    /\ argi = 1
    /\ opt = [width |-> 0, height |-> 0, numBoids |-> 150, showTrails |-> FALSE]
    /\ paused = FALSE /\ presses = 0
    /\ cat = NewCat
    /\ pc = "parseArgs"
    /\ birds = << >>
    /\ windowWidth = 0
    /\ windowHeight = 0
    /\ randState = DefaultSeed
    /\ idx = 0
    /\ done = {}
    /\ px = << >> /\ py = << >> /\ vx = << >> /\ vy = << >>
    /\ ax = << >> /\ ay = << >>
    /\ radii2 = << >>
    /\ reads = << >> /\ writes = << >>
    /\ moved = << >>
    /\ last = NoOp
    /\ nSteps = 0
    /\ nOps = 0

NextStartup ==
    ParseArg \/ ParseArgsReturn \/ Validate \/ SDLFails \/ Construct \/ InitialBirds

SpecStartup == InitStartup /\ [][NextStartup]_vars

(***************************************************************************)
(* The two update functions as functions of the flock they start from      *)
(***************************************************************************)
\* The first loop of updateSerial from agent i on: each flock() call reads
\* the vector as the calls before it left it.
RECURSIVE flockPass(_, _, _, _)
flockPass(bs, i, w, h) ==
    IF i > Len(bs) THEN bs
    ELSE flockPass([bs EXCEPT ![i] = flock(bs[i], bs, w, h)], i + 1, w, h)

\* The second loop of updateSerial from agent i on.
RECURSIVE updatePass(_, _, _, _)
updatePass(bs, i, w, h) ==
    IF i > Len(bs) THEN bs
    ELSE updatePass([bs EXCEPT ![i] = borders(update(bs[i]), w, h)], i + 1, w, h)

\* updateSerial()
updateSerial(bs, w, h) == updatePass(flockPass(bs, 1, w, h), 1, w, h)

\* The snapshot vectors of updateParallel for the flock bs.
snapshotOf(bs) ==
    [ px |-> [i \in 1..Len(bs) |-> bs[i].position.x],
      py |-> [i \in 1..Len(bs) |-> bs[i].position.y],
      vx |-> [i \in 1..Len(bs) |-> bs[i].velocity.x],
      vy |-> [i \in 1..Len(bs) |-> bs[i].velocity.y] ]

\* What the force loop stores in (ax[i], ay[i]) for the flock bs.
forceOf(bs, i, h) ==
    LET sn == snapshotOf(bs)
    IN  parallelAcc(i, sn.px, sn.py, sn.vx, sn.vy, bs[i], h,
                    Sq(bs[1].separationRadius), Sq(bs[1].alignmentRadius),
                    Sq(bs[1].cohesionRadius))

\* updateParallel()
updateParallel(bs, w, h) ==
    [i \in 1..Len(bs) |->
        borders(update(applyForce(bs[i], forceOf(bs, i, h))), w, h)]

(***************************************************************************)
(* Tolerances                                                              *)
(***************************************************************************)
\* Rounding tolerance of a magnitude, in fixed-point units.
Eps == 3

\* Tolerance of the sequential / parallel comparison, in fixed-point units
\* per coordinate.
Tol == 3

Close(a, b) == Abs(a.x - b.x) <= Tol /\ Abs(a.y - b.y) <= Tol

\* A step has run to completion.
StepDone(op) == pc = "idle" /\ last.op = op

(***************************************************************************)
(* C1.  One updateParallel() leaves every agent with the position and      *)
(* velocity that one updateSerial() on the same starting flock leaves it   *)
(* with, up to the tolerance Tol.                                          *)
(***************************************************************************)
C1_ParallelMatchesSerial ==
    StepDone("updateParallel") =>
        LET ser == updateSerial(last.birds, last.w, last.h)
        IN  /\ Len(birds) = Len(ser)
            /\ \A i \in 1..Len(ser) :
                  /\ Close(birds[i].position, ser[i].position)
                  /\ Close(birds[i].velocity, ser[i].velocity)

\* Agent i of bs has neighbours within the alignment radius whose mean
\* velocity is zero, or within the cohesion radius whose mean position is
\* its own: the cases in which align() and seek() steer by -velocity while
\* the force loop of updateParallel adds nothing.
MeanOf(bs, i, radius, field(_)) ==
    SumTerms([j \in 1..Len(bs) |->
        IF /\ distance(bs[i].position, bs[j].position) > 0
           /\ distance(bs[i].position, bs[j].position) < radius
        THEN [v |-> field(bs[j]), c |-> 1] ELSE NoTerm])

Degenerate(bs, i) ==
    LET velOf(b) == b.velocity
        posOf(b) == b.position
        ali == MeanOf(bs, i, bs[i].alignmentRadius, velOf)
        coh == MeanOf(bs, i, bs[i].cohesionRadius, posOf)
    IN  \/ ali.c > 0 /\ VDivCount(ali.v, ali.c) = Zero
        \/ coh.c > 0 /\ VDivCount(coh.v, coh.c) = bs[i].position

\* The comparison of C1 restricted to steps in which no agent is in a
\* degenerate case: there the two paths agree.
ParallelMatchesSerialElsewhere ==
    (StepDone("updateParallel") /\ \A i \in 1..Len(last.birds) : ~Degenerate(last.birds, i))
        => C1_ParallelMatchesSerial

(***************************************************************************)
(* C2.  In updateSerial() every flock() has run before any update() runs:  *)
(* while forces are computed no agent has moved, each force is the one     *)
(* computed from the flock the step began with, and the step leaves agent  *)
(* k at borders(update(flock(k-th agent at the start, flock at the         *)
(* start))), whatever k's place in the order.                               *)
(***************************************************************************)
forcedAtStart(k) == flock(last.birds[k], last.birds, windowWidth, windowHeight)

C2_ForcesFromStepStart ==
    /\ pc = "flockLoop" =>
          /\ moved = << >>
          /\ \A k \in 1..N :
                /\ birds[k].position = last.birds[k].position
                /\ birds[k].velocity = last.birds[k].velocity
                /\ birds[k] = IF k < idx THEN forcedAtStart(k) ELSE last.birds[k]
    /\ pc = "updateLoop" =>
          \A k \in 1..N :
             birds[k] = IF k < idx
                        THEN borders(update(forcedAtStart(k)), windowWidth, windowHeight)
                        ELSE forcedAtStart(k)
    /\ StepDone("updateSerial") =>
          /\ Len(birds) = Len(last.birds)
          /\ \A k \in 1..N :
                birds[k] = borders(update(forcedAtStart(k)), windowWidth, windowHeight)

\* Agents j and k of the flock bs are within cohesion radius of each other.
Neighbours(bs, j, k) ==
    /\ j # k
    /\ SumSq(bs[j].position.x - bs[k].position.x,
             bs[j].position.y - bs[k].position.y) < Sq(bs[j].cohesionRadius)
    /\ bs[j].position # bs[k].position

\* Agent 1 has been integrated and has moved; agent 2, its neighbour, still
\* carries the force computed from agent 1's position at the start.
C2_Witness ==
    /\ pc = "updateLoop" /\ idx = 2
    /\ Neighbours(last.birds, 1, 2)
    /\ birds[1].position # last.birds[1].position
    /\ birds[2].acceleration # Zero

(***************************************************************************)
(* C3.  In updateParallel() no two iterations of a loop write the same     *)
(* location and none reads a location another one writes in that loop:     *)
(* snapshot iteration i writes only px, py, vx, vy [i]; force iteration i  *)
(* reads only the snapshot, the agent's maxSpeed and maxForce and the      *)
(* window height and writes only ax[i], ay[i]; integration iteration i     *)
(* writes only agent i.  No agent is written before the integration loop.  *)
(***************************************************************************)
SnapshotLocs(i) == { Loc("px", i), Loc("py", i), Loc("vx", i), Loc("vy", i) }

AgentLocs(i) == { Loc("position", i), Loc("velocity", i), Loc("acceleration", i) }

C3_NoDataRace ==
    pc \in {"snapshot", "force", "integrate"} =>
       /\ \A i, j \in 1..N :
             i # j => /\ writes[i] \cap writes[j] = {}
                      /\ writes[i] \cap reads[j] = {}
       /\ pc = "snapshot" =>
             /\ \A i \in 1..N : writes[i] \subseteq SnapshotLocs(i)
             /\ \A i \in (1..N) \ done :
                   px[i] = 0 /\ py[i] = 0 /\ vx[i] = 0 /\ vy[i] = 0
       /\ pc = "force" =>
             /\ \A i \in 1..N :
                   /\ writes[i] \subseteq { Loc("ax", i), Loc("ay", i) }
                   /\ reads[i] \subseteq
                         UNION { SnapshotLocs(j) : j \in 1..N }
                         \cup { Loc("maxSpeed", i), Loc("maxForce", i),
                                Loc("windowHeight", 0) }
             /\ \A i \in (1..N) \ done : ax[i] = 0 /\ ay[i] = 0
       /\ pc = "integrate" =>
             /\ \A i \in 1..N : writes[i] \subseteq AgentLocs(i)
             /\ \A i \in (1..N) \ done : birds[i] = last.birds[i]
       /\ pc \in {"snapshot", "force"} => birds = last.birds

\* Two force iterations have run and a third agent is still to come.
C3_Witness ==
    /\ pc = "force" /\ Cardinality(done) >= 2
    /\ \E i \in done : ax[i] # 0 \/ ay[i] # 0

(***************************************************************************)
(* C4.  In updateParallel() no acceleration is applied and no agent is     *)
(* integrated or wrapped until the snapshot is complete and the force of   *)
(* every agent is in ax, ay; the step leaves agent i at                    *)
(* borders(update(agent i at the start + its force)), a function of the    *)
(* starting flock alone, so the order of the iterations does not matter.   *)
(***************************************************************************)
integratedFromStart(i) ==
    borders(update(applyForce(last.birds[i], forceOf(last.birds, i, windowHeight))),
            windowWidth, windowHeight)

C4_Barrier ==
    /\ pc \in {"snapshot", "force"} => birds = last.birds /\ moved = << >>
    /\ pc = "integrate" =>
          /\ px = snapshotOf(last.birds).px /\ py = snapshotOf(last.birds).py
          /\ vx = snapshotOf(last.birds).vx /\ vy = snapshotOf(last.birds).vy
          /\ \A i \in 1..N :
                /\ Vector2D(ax[i], ay[i]) = forceOf(last.birds, i, windowHeight)
                /\ birds[i] = IF i \in done THEN integratedFromStart(i)
                              ELSE last.birds[i]
    /\ StepDone("updateParallel") =>
          /\ Len(birds) = Len(last.birds)
          /\ \A i \in 1..N : birds[i] = integratedFromStart(i)

\* The integration loop is under way in an order other than 1, 2, 3: a
\* later agent has been integrated before an earlier one.
C4_Witness ==
    /\ pc = "integrate"
    /\ \E i, j \in 1..N : i < j /\ j \in done /\ i \notin done

(***************************************************************************)
(* C5.  After update() the speed of the agent is at most maxSpeed (up to   *)
(* Eps), whatever its acceleration and its velocity before: for every      *)
(* agent in every state, and for update() applied to any agent with any    *)
(* of the accelerations or velocities of TestVectors.                      *)
(***************************************************************************)
TestVectors ==
    { Vector2D(-8 * Scale, 5 * Scale), Vector2D(3 * Scale, 1),
      Vector2D(0, -2 * Scale), Vector2D(Scale, Scale) }

C5_SpeedCapped ==
    \A i \in 1..N :
       /\ magnitude(birds[i].velocity) <= birds[i].maxSpeed + Eps
       /\ \A t \in TestVectors :
             /\ magnitude(update([birds[i] EXCEPT !.acceleration = t]).velocity)
                   <= birds[i].maxSpeed + Eps
             /\ magnitude(update([birds[i] EXCEPT !.velocity = t]).velocity)
                   <= birds[i].maxSpeed + Eps

\* update() has run on an agent whose velocity plus acceleration exceeded
\* maxSpeed: the clamp acted.
C5_Witness ==
    /\ StepDone("updateSerial")
    /\ \E i \in 1..N :
          /\ magnitude(VAdd(forcedAtStart(i).velocity, forcedAtStart(i).acceleration))
                > birds[i].maxSpeed + Eps
          /\ magnitude(birds[i].velocity) <= birds[i].maxSpeed + Eps

(***************************************************************************)
(* C6.  Each weighted force that flock(), and the force loop of            *)
(* updateParallel(), adds to the acceleration is at most weight x maxForce *)
(* in magnitude (up to Eps): separation 1.5, alignment 1.0, cohesion 1.0,  *)
(* bias 0.8 x maxForce / 2.  Checked for the agent whose flock() runs next *)
(* and for every agent of the force loop.                                  *)
(***************************************************************************)
WithinCaps(f, b) ==
    /\ magnitude(f[1]) <= FMul(Lit(15, 10), b.maxForce) + Eps
    /\ magnitude(f[2]) <= b.maxForce + Eps
    /\ magnitude(f[3]) <= b.maxForce + Eps
    /\ magnitude(f[4]) <= FMul(Lit(8, 10), FMul(b.maxForce, Lit(5, 10))) + Eps

forcesInLoop(i) ==
    parallelForces(i, px, py, vx, vy, birds[i], windowHeight,
                   radii2.sep, radii2.ali, radii2.coh)

C6_ForcesCapped ==
    /\ pc = "flockLoop" =>
          WithinCaps(flockForces(birds[idx], birds, windowWidth, windowHeight), birds[idx])
    /\ pc = "force" =>
          \A i \in 1..N : WithinCaps(forcesInLoop(i), birds[i])

\* A force loop in which the separation, alignment and cohesion of some
\* agent all reach their cap.
C6_Witness ==
    /\ pc = "force"
    /\ \E i \in 1..N :
          /\ magnitude(forcesInLoop(i)[1]) >= FMul(Lit(15, 10), birds[i].maxForce) - Eps
          /\ magnitude(forcesInLoop(i)[2]) >= birds[i].maxForce - Eps
          /\ magnitude(forcesInLoop(i)[3]) >= birds[i].maxForce - Eps

(***************************************************************************)
(* C7.  separate(), align() and cohesion() return (0,0) for an agent with  *)
(* no other agent within the rule's radius, and the force loop of          *)
(* updateParallel() adds no separation, alignment or cohesion for it.      *)
(***************************************************************************)
\* No agent other than i lies within radius of agent i (positions ps).
Alone(ps, i, radius) ==
    \A j \in 1..Len(ps) :
       j # i => SumSq(ps[i].x - ps[j].x, ps[i].y - ps[j].y) >= Sq(radius)

positionsOf(bs) == [j \in 1..Len(bs) |-> bs[j].position]

snapshotPositions == [j \in 1..Len(px) |-> Vector2D(px[j], py[j])]

C7_NoNeighbourNoForce ==
    /\ pc = "flockLoop" =>
          \A i \in 1..N :
             LET ps == positionsOf(birds)
                 b == birds[i]
             IN  /\ Alone(ps, i, b.separationRadius) => separate(b, birds) = Zero
                 /\ Alone(ps, i, b.alignmentRadius) => align(b, birds) = Zero
                 /\ Alone(ps, i, b.cohesionRadius) => cohesion(b, birds) = Zero
    /\ pc = "force" =>
          \A i \in 1..N :
             LET b == birds[i]
                 f == forcesInLoop(i)
             IN  /\ Alone(snapshotPositions, i, b.separationRadius) => f[1] = Zero
                 /\ Alone(snapshotPositions, i, b.alignmentRadius) => f[2] = Zero
                 /\ Alone(snapshotPositions, i, b.cohesionRadius) => f[3] = Zero

\* A flock of several agents in the first loop of updateSerial, one of them
\* with no agent within its cohesion radius and one with a neighbour.
C7_Witness ==
    /\ pc = "flockLoop" /\ N >= 2
    /\ \E i \in 1..N : Alone(positionsOf(birds), i, birds[i].cohesionRadius)
    /\ \E i \in 1..N : ~Alone(positionsOf(birds), i, birds[i].cohesionRadius)

(***************************************************************************)
(* C8.  borders(width, height) moves an agent with x > width + r to        *)
(* exactly x = -r, one with x < -r to exactly x = width + r, and leaves x  *)
(* unchanged when -r <= x <= width + r; likewise y with height.  Checked   *)
(* for the borders() call of every agent a step has integrated, and for    *)
(* borders() applied to the positions of TestPositions, among them         *)
(* x = width + r + 1.                                                      *)
(***************************************************************************)
WrapOf(p, q, r_, size) ==
    /\ p > FromInt(size) + r_ => q = -r_
    /\ p < -r_ => q = FromInt(size) + r_
    /\ (p >= -r_ /\ p <= FromInt(size) + r_) => q = p

Wrapped(p, q, b) ==
    /\ WrapOf(p.x, q.x, b.r, windowWidth)
    /\ WrapOf(p.y, q.y, b.r, windowHeight)

TestCoordinates(r_, size) ==
    { -r_ - FromInt(1), -r_ - 1, -r_, 0, FromInt(size), FromInt(size) + r_,
      FromInt(size) + r_ + 1, FromInt(size) + r_ + FromInt(1) }

C8_BordersWrap ==
    /\ last.op \in {"updateSerial", "updateParallel"} =>
          \A i \in DOMAIN moved : Wrapped(moved[i], birds[i].position, birds[i])
    /\ N >= 1 =>
          \A x_ \in TestCoordinates(birds[1].r, windowWidth) :
             \A y_ \in TestCoordinates(birds[1].r, windowHeight) :
                Wrapped(Vector2D(x_, y_),
                        borders([birds[1] EXCEPT !.position = Vector2D(x_, y_)],
                                windowWidth, windowHeight).position,
                        birds[1])

\* A step has integrated an agent that update() left beyond width + r, and
\* borders() has put it at x = -r.
C8_Witness ==
    /\ last.op \in {"updateSerial", "updateParallel"}
    /\ \E i \in DOMAIN moved :
          /\ moved[i].x > FromInt(windowWidth) + birds[i].r
          /\ birds[i].position.x = -birds[i].r

freshBird(s, k, w, h) ==
    LET s0 == RandAfter(s, (k - 1) * (2 + BirdRandCalls))
    IN  NewBird(FMul(RandFraction(RandAfter(s0, 1)), FromInt(w)),
                FMul(RandFraction(RandAfter(s0, 2)), FromInt(h)),
                RandAfter(s0, 2))

C10_InitializeReplaces ==
    last.op = "initializeBirds" =>
       /\ Len(birds) = last.n
       /\ \A k \in 1..Len(birds) :
             /\ birds[k] = freshBird(last.rand, k, windowWidth, windowHeight)
             /\ birds[k].position.x >= 0
             /\ birds[k].position.x <= FromInt(windowWidth)
             /\ birds[k].position.y >= 0
             /\ birds[k].position.y <= FromInt(windowHeight)
             /\ birds[k].acceleration = Zero
             /\ magnitude(birds[k].velocity) <= birds[k].maxSpeed + Eps

\* initializeBirds has replaced a flock that held agents by another.
C10_Witness ==
    /\ last.op = "initializeBirds"
    /\ Len(last.birds) >= 1
    /\ Len(birds) >= 2
    /\ \E k \in 1..Len(birds) : birds[k].position.x = FromInt(windowWidth)

(***************************************************************************)
(* C11.  getCoherence() is the mean distance of the agents from the        *)
(* centroid of the flock (the sum of the distances is the size times the   *)
(* value, up to the rounding of the quotient, and the value lies between   *)
(* the least and the greatest distance), it is 0 for fewer than 2 agents,  *)
(* and 5 for two agents at (0,0) and (10,0).  While main draws and calls   *)
(* getAverageSpeed() and getCoherence(), no agent and no field of the      *)
(* flock changes.                                                          *)
(***************************************************************************)
\* The centroids of the flock bs: the representable points nearest to the
\* mean of the positions (two of them on an axis where the mean lies half
\* way between two points).
Centroids(bs) ==
    { c \in { Vector2D(x_, y_) :
                x_ \in { SumSeq([i \in 1..Len(bs) |-> bs[i].position.x]) \div Len(bs) + k
                           : k \in -1..1 },
                y_ \in { SumSeq([i \in 1..Len(bs) |-> bs[i].position.y]) \div Len(bs) + k
                           : k \in -1..1 } } :
         /\ 2 * Abs(Len(bs) * c.x - SumSeq([i \in 1..Len(bs) |-> bs[i].position.x])) <= Len(bs)
         /\ 2 * Abs(Len(bs) * c.y - SumSeq([i \in 1..Len(bs) |-> bs[i].position.y])) <= Len(bs) }

fromCentroid(bs, c) == [i \in 1..Len(bs) |-> distance(bs[i].position, c)]

MeanDistance(bs, m) ==
    \E c \in Centroids(bs) :
       /\ 2 * Abs(Len(bs) * m - SumSeq(fromCentroid(bs, c))) <= Len(bs)
       /\ \E i \in 1..Len(bs) : fromCentroid(bs, c)[i] <= m + 1
       /\ \E i \in 1..Len(bs) : fromCentroid(bs, c)[i] >= m - 1

PairOnAxis == << NewBird(0, 0, DefaultSeed), NewBird(FromInt(10), 0, DefaultSeed) >>

CoherenceIsMeanDistance ==
    /\ N < 2 => getCoherence(birds) = 0
    /\ N >= 2 => MeanDistance(birds, getCoherence(birds))
    /\ getCoherence(PairOnAxis) = FromInt(5)
    /\ getCoherence(<< >>) = 0 /\ getCoherence(<< PairOnAxis[2] >>) = 0

C11_Coherence ==
    /\ []CoherenceIsMeanDistance
    /\ [][pc = "render" => UNCHANGED flockVars]_vars

\* main is drawing a flock of several agents that are apart and moving.
C11_Witness ==
    /\ pc = "render" /\ N >= 2
    /\ getCoherence(birds) > 0
    /\ getAverageSpeed(birds) > 0

(***************************************************************************)
(* C12.  Determinism.  After initializeBirds(k) from generator state s     *)
(* followed by n calls of updateSerial() and nothing else, the flock is    *)
(* Trajectory(s, k, n): a function of s, k, n and the viewport, so two     *)
(* runs with the same s, k and n hold the same agents in the same order    *)
(* after every step.  No step draws from the generator.                    *)
(***************************************************************************)
\* The flock after initializeBirds(k) from generator state s and n calls of
\* updateSerial(), in a w x h viewport.
RECURSIVE Trajectory(_, _, _, _, _)
Trajectory(s, k, n, w, h) ==
    IF n = 0 THEN randomBoids(<< >>, s, k, w, h)
    ELSE updateSerial(Trajectory(s, k, n - 1, w, h), w, h)

C12_Deterministic ==
    /\ last.run.ok =>
          /\ randState = randAfterBoids(last.run.seed, last.run.k)
          /\ pc \in {"idle", "render"} =>
                birds = Trajectory(last.run.seed, last.run.k, last.run.steps,
                                   windowWidth, windowHeight)
    /\ last.op \in {"updateSerial", "updateParallel"} => randState = last.rand

\* Two steps of updateSerial have followed initializeBirds of several
\* agents, and each has changed the flock.
C12_Witness ==
    /\ pc = "idle" /\ last.run.ok /\ last.run.steps = 2 /\ last.run.k >= 2
    /\ birds # last.birds
    /\ last.birds # Trajectory(last.run.seed, last.run.k, 0, windowWidth, windowHeight)

(***************************************************************************)
(* C13.  In every reachable state windowWidth > 0, windowHeight > 0 and    *)
(* the number of agents is >= 0.                                           *)
(***************************************************************************)
C13_ViewportPositive ==
    /\ windowWidth > 0
    /\ windowHeight > 0
    /\ Len(birds) >= 0

(***************************************************************************)
(* C14.  resize(w, h) stores w and h and changes nothing else: no agent    *)
(* moves and the generator is not used.  A step that begins after it finds *)
(* the stored values, and its result is the one computed with them, both   *)
(* in the bias (windowHeight) and in borders() (windowWidth,               *)
(* windowHeight), in updateSerial and in updateParallel alike.             *)
(***************************************************************************)
StepUsesViewport ==
    (pc \in {"idle", "render"} /\ last.op \in {"updateSerial", "updateParallel"}) =>
       /\ windowWidth = last.w /\ windowHeight = last.h
       /\ birds = IF last.op = "updateSerial"
                  THEN updateSerial(last.birds, windowWidth, windowHeight)
                  ELSE updateParallel(last.birds, windowWidth, windowHeight)

ResizeOnlyStores ==
    (last'.op = "resize" /\ nOps' = nOps + 1) =>
       /\ windowWidth' = last'.x /\ windowHeight' = last'.y
       /\ birds' = birds /\ randState' = randState /\ pc' = pc

StepStartsResized ==
    (last.op = "resize" /\ nSteps' = nSteps + 1) =>
       last'.w = last.x /\ last'.h = last.y

C14_ResizeTakesEffect ==
    /\ []StepUsesViewport
    /\ [][ResizeOnlyStores /\ StepStartsResized]_vars

\* A parallel step has run in a viewport other than the one main opened: an
\* agent has been wrapped at the new width, and the bias of an agent is not
\* what the former height would have given.
C14_Witness ==
    /\ pc = "idle" /\ last.op = "updateParallel"
    /\ windowWidth # 640 /\ windowHeight # 480
    /\ \E i \in DOMAIN moved :
          /\ moved[i].x > FromInt(windowWidth) + birds[i].r
          /\ moved[i].x < FromInt(640)
          /\ birds[i].position.x = -birds[i].r
    /\ \E i \in 1..Len(last.birds) :
          environmentalBias(last.birds[i], windowWidth, windowHeight)
             # environmentalBias(last.birds[i], 640, 480)

(***************************************************************************)
(* C15.  A step on the empty flock does nothing, in either path: it        *)
(* returns at once, reads no agent (the snapshot, the squared radii of     *)
(* birds[0] and the buffers are never made), and leaves the flock empty    *)
(* and the viewport as it was.  A step that has begun on a non-empty flock *)
(* runs until it has integrated every agent and returned.                  *)
(***************************************************************************)
EmptyStepNoOp ==
    (last.op \in {"updateSerial", "updateParallel"} /\ last.birds = << >>) =>
       /\ pc \in {"render", "idle"}
       /\ birds = << >>
       /\ windowWidth = last.w /\ windowHeight = last.h
       /\ px = << >> /\ py = << >> /\ vx = << >> /\ vy = << >>
       /\ ax = << >> /\ ay = << >> /\ radii2 = << >>
       /\ reads = << >> /\ writes = << >> /\ moved = << >>

StepReturned ==
    /\ pc = "render"
    /\ last.op \in {"updateSerial", "updateParallel"}
    /\ DOMAIN moved = 1..Len(last.birds)
    /\ Len(birds) = Len(last.birds)

C15_EmptyStepNoOp ==
    /\ []EmptyStepNoOp
    /\ [](StepUnderWay => last.birds # << >>)
    /\ (StepUnderWay ~> StepReturned)

\* updateParallel has returned from a call on the empty flock.
C15_Witness ==
    /\ pc = "render" /\ last.op = "updateParallel" /\ last.birds = << >>
    /\ nSteps >= 1

(***************************************************************************)
(* C16.  In main's loop the flock is changed by addBoid, addBoids,         *)
(* removeBoids and resize only while events are polled (no update is       *)
(* running and the frame has not begun to draw); an update begins only     *)
(* from the event loop, after the update before it has returned, and is    *)
(* followed by drawing before the next one; drawing, where the statistics  *)
(* are read, changes nothing and runs only once the update has returned.   *)
(***************************************************************************)
Polling == pc = "idle" /\ idx = 0 /\ done = {} /\ px = << >> /\ ax = << >>

MutatesOnlyWhilePolling ==
    (\/ Len(birds') # Len(birds)
     \/ windowWidth' # windowWidth \/ windowHeight' # windowHeight
     \/ randState' # randState
     \/ nOps' # nOps)
       => Polling /\ pc' = "idle"

StepsOnlyFromPolling == nSteps' # nSteps => Polling

DrawsAfterStep ==
    /\ pc' = "render" /\ pc # "render" =>
          \/ pc = "idle"
          \/ pc = "updateLoop" /\ idx = N
          \/ pc = "integrate" /\ done = 1..N
    /\ pc = "render" =>
          /\ pc' = "idle"
          /\ UNCHANGED << flockVars, idx, done, localVars, last, nSteps, nOps >>

C16_NoOverlap ==
    /\ [](StepUnderWay => Len(birds) = Len(last.birds)
                          /\ windowWidth = last.w /\ windowHeight = last.h)
    /\ [][MutatesOnlyWhilePolling /\ StepsOnlyFromPolling /\ DrawsAfterStep]_vars

\* The second update of a run is integrating, after an event changed the
\* flock.
C16_Witness ==
    /\ pc = "integrate" /\ nSteps = MaxSteps /\ nOps >= 2
    /\ done # {}

(***************************************************************************)
(* C17.  seek(target) returns (0,0) when target is the agent's own         *)
(* position, whatever the agent's velocity: for every agent of every       *)
(* reachable flock, and with each velocity of TestVectors.                 *)
(***************************************************************************)
C17_SeekSelfIsZero ==
    \A i \in 1..N :
       /\ seek(birds[i], birds[i].position) = Zero
       /\ \A t \in TestVectors :
             seek([birds[i] EXCEPT !.velocity = t], birds[i].position) = Zero

(***************************************************************************)
(* C18.  normalize() leaves the zero vector exactly (0,0), without         *)
(* dividing; a non-zero vector becomes a vector of magnitude 1 in the same *)
(* direction.  Stated for the vectors the program normalizes: the agents'  *)
(* velocities, the differences of their positions (zero for an agent and   *)
(* itself) and the vectors of TestVectors.  Magnitude 1 is Scale, up to    *)
(* the rounding of the quotients (Eps) and of the root (one unit in        *)
(* magnitude(v), that is Scale / magnitude(v) in the result).              *)
(***************************************************************************)
Normalized ==
    { birds[i].velocity : i \in 1..N }
       \cup { VSub(birds[i].position, birds[j].position) : i, j \in 1..N }
       \cup TestVectors \cup { Zero, Vector2D(0, 1), Vector2D(-1, 0) }

Dot(a, b) == a.x * b.x + a.y * b.y

Cross(a, b) == a.x * b.y - a.y * b.x

\* u points where v points: no component changes sign, the two are
\* parallel up to the rounding of u's components, and not opposite.
SameDirection(v, u) ==
    /\ Sign(u.x) \in { 0, Sign(v.x) }
    /\ Sign(u.y) \in { 0, Sign(v.y) }
    /\ 2 * Abs(Cross(v, u)) <= Abs(v.x) + Abs(v.y)
    /\ Dot(v, u) > 0

UnitLength(v, u) ==
    Abs(magnitude(u) - Scale) <= (Scale \div magnitude(v)) + Eps

C18_Normalize ==
    \A v \in Normalized :
       IF v = Zero THEN magnitude(v) = 0 /\ normalize(v) = Zero
       ELSE /\ magnitude(v) > 0
            /\ UnitLength(v, normalize(v))
            /\ SameDirection(v, normalize(v))

\* After a step, two agents apart and moving: limit() and seek() have
\* normalized a velocity and a difference of positions.
C18_Witness ==
    /\ N >= 2
    /\ nSteps >= 1
    /\ birds[1].position # birds[2].position
    /\ magnitude(birds[1].velocity) >= Scale
    /\ Abs(magnitude(normalize(birds[1].velocity)) - Scale) <= Eps
    /\ normalize(VSub(birds[2].position, birds[2].position)) = Zero

(***************************************************************************)
(* C19.  No step divides by a zero scalar: in every reachable state, every *)
(* division the iteration about to run executes (by a neighbour distance,  *)
(* a neighbour count, a vector magnitude, the terms 0.3*H and 0.5*H of the *)
(* environmental bias) has a non-zero divisor.  The divisors are collected *)
(* under the conditions the code divides under.                            *)
(***************************************************************************)
\* normalize(): mag, under `if (mag > 0)`.
normalizeDivisors(v) == IF magnitude(v) > 0 THEN { magnitude(v) } ELSE {}

\* limit(): normalize() under `if (magnitude() > maxMag)`.
limitDivisors(v, maxMag) ==
    IF magnitude(v) > maxMag THEN normalizeDivisors(v) ELSE {}

\* seek(): normalize() of the desired direction, limit() of the steering.
seekDivisors(b, target) ==
    LET diff == VSub(target, b.position)
    IN  normalizeDivisors(diff)
           \cup limitDivisors(VSub(VMul(normalize(diff), b.maxSpeed), b.velocity),
                              b.maxForce)

\* The neighbours with the radius itself included (`d <= radius`).
neighboursOfInclusive(b, bs, radius) ==
    { j \in 1..Len(bs) :
         /\ distance(b.position, bs[j].position) > 0
         /\ distance(b.position, bs[j].position) <= radius }

\* The agents within radius of b, b itself and coincident agents excluded
\* (`d > 0 && d < radius`).
neighboursOf(b, bs, radius) ==
    { j \in 1..Len(bs) :
         /\ distance(b.position, bs[j].position) > 0
         /\ distance(b.position, bs[j].position) < radius }

positionSum(bs, js) == SumTerms([j \in 1..Len(bs) |->
                          IF j \in js THEN [v |-> bs[j].position, c |-> 1] ELSE NoTerm])

velocitySum(bs, js) == SumTerms([j \in 1..Len(bs) |->
                           IF j \in js THEN [v |-> bs[j].velocity, c |-> 1] ELSE NoTerm])

\* separate(): the sum of the unit vectors away from the neighbours js, each
\* divided by its distance.
awaySum(b, bs, js) ==
    SumTerms([j \in 1..Len(bs) |->
                 IF j \in js
                 THEN [v |-> VDiv(normalize(VSub(b.position, bs[j].position)),
                                  distance(b.position, bs[j].position)),
                       c |-> 1]
                 ELSE NoTerm])

\* environmentalBias(): windowHeight * 0.3f under `position.y > upperHalf`,
\* windowHeight * 0.5f always.
biasDivisors(y, windowHeight_) ==
    LET upperHalf == FMul(FromInt(windowHeight_), Lit(3, 10))
    IN  { FMul(FromInt(windowHeight_), Lit(5, 10)) }
           \cup (IF y > upperHalf THEN { upperHalf } ELSE {})

\* Bird::flock for agent b.
flockDivisors(b, bs, windowHeight_) ==
    LET sep == neighboursOf(b, bs, b.separationRadius)
        ali == neighboursOf(b, bs, b.alignmentRadius)
        coh == neighboursOf(b, bs, b.cohesionRadius)
    IN  { distance(b.position, bs[j].position) : j \in sep }
           \cup { Cardinality(js) : js \in { ks \in { sep, ali, coh } : ks # {} } }
           \cup (IF sep # {}
                 THEN LET mean == VDivCount(awaySum(b, bs, sep).v, Cardinality(sep))
                      IN  normalizeDivisors(mean)
                             \cup limitDivisors(VSub(VMul(normalize(mean), b.maxSpeed),
                                                     b.velocity), b.maxForce)
                 ELSE {})
           \cup (IF ali # {}
                 THEN normalizeDivisors(VDivCount(velocitySum(bs, ali).v,
                                                  Cardinality(ali)))
                 ELSE {})
           \cup (IF coh # {}
                 THEN seekDivisors(b, VDivCount(positionSum(bs, coh).v,
                                                Cardinality(coh)))
                 ELSE {})
           \cup biasDivisors(b.position.y, windowHeight_)

\* The force loop of updateParallel for agent i: sqrt(d2) under `d2 > 0`,
\* the counts under `count > 0`, the bias terms.
parallelDivisors(i, px_, py_, windowHeight_, sepR2, aliR2, cohR2) ==
    LET d2(j) == SumSq(px_[i] - px_[j], py_[i] - py_[j])
        near(r2) == { j \in 1..Len(px_) : d2(j) > 0 /\ d2(j) < r2 }
    IN  { Sqrt(d2(j)) : j \in near(sepR2) }
           \cup { Cardinality(js) :
                     js \in { ks \in { near(sepR2), near(aliR2), near(cohR2) } : ks # {} } }
           \cup biasDivisors(py_[i], windowHeight_)

\* Bird::update for agent b with the force acc applied.
updateDivisors(b, acc) ==
    limitDivisors(VAdd(b.velocity, VAdd(b.acceleration, acc)), b.maxSpeed)

C19_NoDivisionByZero ==
    /\ pc = "flockLoop" => 0 \notin flockDivisors(birds[idx], birds, windowHeight)
    /\ pc = "updateLoop" => 0 \notin updateDivisors(birds[idx], Zero)
    /\ pc = "force" =>
          \A i \in (1..N) \ done :
             0 \notin parallelDivisors(i, px, py, windowHeight,
                                       radii2.sep, radii2.ali, radii2.coh)
    /\ pc = "integrate" =>
          \A i \in (1..N) \ done :
             0 \notin updateDivisors(birds[i], Vector2D(ax[i], ay[i]))

(***************************************************************************)
(* C20.  Malformed configuration is rejected before the flock is built:    *)
(* for every argument list and every console input, FlockingSystem is      *)
(* constructed only with width > 0 and height > 0, and initializeBirds is  *)
(* called only with a count >= 0.                                          *)
(***************************************************************************)
Constructed == pc \in { "constructed", "idle", "terminated" }

C20_ConfigurationRejected ==
    /\ Constructed => windowWidth > 0 /\ windowHeight > 0
    /\ last.op = "initializeBirds" => last.n >= 0

\* The part of C20 that holds: the flock is constructed 640 x 480 at the
\* least, whatever the arguments and the console say.
ViewportValidated ==
    Constructed => windowWidth >= 640 /\ windowHeight >= 480

(***************************************************************************)
(* C21.  A step of either path changes only the position, velocity and     *)
(* acceleration of agents: while it runs and after it, the flock has the   *)
(* agents it began with, in the same order, each with its colour, r,       *)
(* maxSpeed, maxForce and radii, and the viewport is the one it began in.  *)
(***************************************************************************)
\* The fields of an agent that are fixed at its creation.
Attributes(b) ==
    [b EXCEPT !.position = Zero, !.velocity = Zero, !.acceleration = Zero]

StepIsLast == last.op \in { "updateSerial", "updateParallel" }

C21_StepFrame ==
    StepIsLast =>
       /\ Len(birds) = Len(last.birds)
       /\ \A i \in 1..N : Attributes(birds[i]) = Attributes(last.birds[i])
       /\ windowWidth = last.w /\ windowHeight = last.h

\* A step of a flock of agents of different colours has returned and moved
\* an agent.
C21_Witness ==
    /\ StepIsLast /\ pc \in { "render", "idle" }
    /\ N >= 2
    /\ Attributes(birds[1]) # Attributes(birds[2])
    /\ birds[1].position # last.birds[1].position
    /\ birds[1].velocity # last.birds[1].velocity

(***************************************************************************)
(* C22.  In every step of either path each agent's force is computed       *)
(* exactly once, and update() then borders() run exactly once for each     *)
(* agent: every iteration of a force loop computes the force of one agent  *)
(* whose force was not yet computed, every iteration of an integration     *)
(* loop integrates one agent not yet integrated, a loop ends only when     *)
(* every agent has had its iteration, and the flock the step returns is    *)
(* the one in which each agent was forced and integrated once.             *)
(***************************************************************************)
\* The agents integrated so far in the step.
Integrated == DOMAIN moved

\* An iteration of the serial force loop: agent idx, then the next one.
SerialForceOnce ==
    pc = "flockLoop" =>
       /\ birds' = [birds EXCEPT
                      ![idx] = flock(birds[idx], birds, windowWidth, windowHeight)]
       /\ \/ idx < N /\ idx' = idx + 1 /\ pc' = "flockLoop"
          \/ idx = N /\ idx' = 1 /\ pc' = "updateLoop"

\* An iteration of the parallel force loop, or its end.
ParallelForceOnce ==
    pc = "force" =>
       \/ /\ done = 1..N /\ pc' = "integrate"
          /\ UNCHANGED << birds, ax, ay >>
       \/ \E i \in (1..N) \ done :
             /\ done' = done \cup {i} /\ pc' = "force"
             /\ LET acc == forceOf(last.birds, i, windowHeight)
                IN  ax' = [ax EXCEPT ![i] = acc.x] /\ ay' = [ay EXCEPT ![i] = acc.y]
             /\ UNCHANGED birds

\* An iteration of an integration loop, or the end of the parallel one.
IntegratedOnce ==
    pc \in { "updateLoop", "integrate" } =>
       \/ /\ pc = "integrate" /\ done = 1..N /\ Integrated = 1..N
          /\ pc' = "render" /\ UNCHANGED << birds, moved >>
       \/ \E k \in (1..N) \ Integrated :
             /\ pc = "updateLoop" => k = idx
             /\ DOMAIN moved' = Integrated \cup {k}
             /\ LET b0 == IF pc = "integrate"
                          THEN applyForce(birds[k], Vector2D(ax[k], ay[k]))
                          ELSE birds[k]
                IN  birds' = [birds EXCEPT
                                ![k] = borders(update(b0), windowWidth, windowHeight)]
             /\ pc' = "render" => Integrated \cup {k} = 1..N

\* The step has returned: every agent was integrated, and the flock is the
\* one the step's function gives for the flock it began with.
AllOnce ==
    StepIsLast /\ pc = "render" =>
       /\ Integrated = 1..N
       /\ last.op = "updateSerial" => birds = updateSerial(last.birds, last.w, last.h)
       /\ last.op = "updateParallel" => birds = updateParallel(last.birds, last.w, last.h)

C22_ExactlyOnce ==
    /\ []AllOnce
    /\ [][SerialForceOnce /\ ParallelForceOnce /\ IntegratedOnce]_vars

\* A parallel step of several moving agents has returned.
C22_Witness ==
    /\ pc = "render" /\ last.op = "updateParallel"
    /\ N >= 2 /\ Integrated = 1..N
    /\ \A i \in 1..N : birds[i].position # last.birds[i].position

(***************************************************************************)
(* C23.  Neighbour selection is the same in the three rules and in both    *)
(* paths: agent j contributes to a rule of agent i iff 0 < d < radius, so  *)
(* an agent never counts itself, an agent at the same position is ignored, *)
(* an agent at distance exactly the radius is ignored, and the parallel    *)
(* test 0 < d^2 < radius^2 selects the same agents.  For every reachable   *)
(* flock and for BoundaryFlock, whose agents lie at distances 0, 24, 25,   *)
(* 26 and 50 of the first.                                                 *)
(***************************************************************************)
\* The agents the scan of updateParallel selects for agent i with the
\* squared radius r2.
squaredNeighbours(px_, py_, i, r2) ==
    { j \in 1..Len(px_) :
         /\ SumSq(px_[i] - px_[j], py_[i] - py_[j]) > 0
         /\ SumSq(px_[i] - px_[j], py_[i] - py_[j]) < r2 }

BoundaryFlock ==
    << NewBird(0, 0, DefaultSeed),
       NewBird(0, 0, DefaultSeed),
       NewBird(FromInt(24), 0, DefaultSeed),
       NewBird(FromInt(15), FromInt(20), DefaultSeed),
       NewBird(FromInt(26), 0, DefaultSeed),
       NewBird(FromInt(30), FromInt(40), DefaultSeed) >>

\* The selections for agent i of the flock bs.
NeighboursAgree(bs, i) ==
       LET sn == snapshotOf(bs)
           scan == neighbourScan(i, sn.px, sn.py, sn.vx, sn.vy,
                                 Sq(bs[1].separationRadius),
                                 Sq(bs[1].alignmentRadius),
                                 Sq(bs[1].cohesionRadius))
           sep == neighboursOf(bs[i], bs, bs[i].separationRadius)
           ali == neighboursOf(bs[i], bs, bs[i].alignmentRadius)
           coh == neighboursOf(bs[i], bs, bs[i].cohesionRadius)
           ignored(js, radius) ==
               \A j \in 1..Len(bs) :
                  \/ j = i
                  \/ bs[j].position = bs[i].position
                  \/ distance(bs[i].position, bs[j].position) >= radius
                  => j \notin js
           chosen(js, radius) ==
               \A j \in 1..Len(bs) :
                  /\ bs[j].position # bs[i].position
                  /\ distance(bs[i].position, bs[j].position) < radius
                  => j \in js
       IN  /\ ignored(sep, bs[i].separationRadius)
           /\ ignored(ali, bs[i].alignmentRadius)
           /\ ignored(coh, bs[i].cohesionRadius)
           /\ chosen(sep, bs[i].separationRadius)
           /\ chosen(ali, bs[i].alignmentRadius)
           /\ chosen(coh, bs[i].cohesionRadius)
           /\ sep = squaredNeighbours(sn.px, sn.py, i, Sq(bs[1].separationRadius))
           /\ ali = squaredNeighbours(sn.px, sn.py, i, Sq(bs[1].alignmentRadius))
           /\ coh = squaredNeighbours(sn.px, sn.py, i, Sq(bs[1].cohesionRadius))
           /\ scan.sep.c = Cardinality(sep)
           /\ scan.ali.c = Cardinality(ali)
           /\ scan.coh.c = Cardinality(coh)

SameNeighbours(bs) == \A i \in 1..Len(bs) : NeighboursAgree(bs, i)

\* Of BoundaryFlock the first agent has one neighbour for separation (the
\* agent at distance 24) and three for cohesion (those at 24, 25 and 26).
BoundarySelection ==
    /\ NeighboursAgree(BoundaryFlock, 1)
    /\ neighboursOf(BoundaryFlock[1], BoundaryFlock, BoundaryFlock[1].separationRadius)
          = { 3 }
    /\ neighboursOf(BoundaryFlock[1], BoundaryFlock, BoundaryFlock[1].cohesionRadius)
          = { 3, 4, 5 }

C23_SameNeighbours == SameNeighbours(birds) /\ BoundarySelection

\* The force loop is scanning a flock with two agents at one position and
\* a third within the separation radius.
C23_Witness ==
    /\ pc = "force" /\ done # {}
    /\ N >= 3
    /\ birds[1].position = birds[2].position
    /\ 3 \in neighboursOf(birds[1], birds, birds[1].separationRadius)
    /\ 2 \notin neighboursOf(birds[1], birds, birds[1].separationRadius)

(***************************************************************************)
(* C24.  limit(maxMag) leaves a vector of magnitude <= maxMag unchanged    *)
(* and rescales any other to magnitude maxMag in the same direction; it is *)
(* idempotent, and for maxMag >= 0 the magnitude afterwards is <= maxMag.  *)
(* Stated for the vectors of Normalized and the limits the program uses    *)
(* (maxSpeed, maxForce, half of maxForce) and 0; magnitudes are compared   *)
(* up to the rounding of the products and of the root (Eps).               *)
(***************************************************************************)
Limits == { Lit(2, 1), Lit(3, 100), FMul(Lit(3, 100), Lit(5, 10)), 0 }

\* Equal up to one unit in each component.
Near(u, v) == Abs(u.x - v.x) <= 1 /\ Abs(u.y - v.y) <= 1

\* u points where v points, each component of u being off by less than
\* two units (the quotient of normalize() scaled by maxMag, and the product).
Rescaled(v, u) ==
    /\ Sign(u.x) \in { 0, Sign(v.x) }
    /\ Sign(u.y) \in { 0, Sign(v.y) }
    /\ Abs(Cross(v, u)) <= 2 * (Abs(v.x) + Abs(v.y))
    /\ Dot(v, u) > 0

C24_Limit ==
    \A v \in Normalized : \A m \in Limits :
       LET mag == magnitude(v)
           u == limit(v, m)
       IN  /\ mag <= m => u = v
           /\ mag > m =>
                 /\ Abs(magnitude(u) - m) <= Eps
                 /\ m > Eps => Rescaled(v, u)
           /\ magnitude(u) <= m + Eps
           /\ Near(limit(u, m), u)

\* After a step in which update() limited a velocity: the agent moves at
\* maxSpeed, and limiting its velocity again changes nothing.
C24_Witness ==
    /\ nSteps >= 1 /\ N >= 1
    /\ \E i \in 1..N :
          /\ StepIsLast /\ birds[i].velocity # last.birds[i].velocity
          /\ Abs(magnitude(birds[i].velocity) - birds[i].maxSpeed) <= Eps
          /\ Near(limit(birds[i].velocity, birds[i].maxSpeed), birds[i].velocity)
    /\ \E v \in Normalized : magnitude(v) > Lit(2, 1)
    /\ \E v \in Normalized : v # Zero /\ magnitude(v) <= Lit(2, 1)

(***************************************************************************)
(* C25.  normalized() terminates and returns a copy of the vector scaled   *)
(* to magnitude 1 (the zero vector for the zero vector), equal to what     *)
(* normalize() produces in place: whatever the build makes of the call,    *)
(* for every vector of Normalized.                                         *)
(***************************************************************************)
C25_NormalizedIsNormalize ==
    \A v \in Normalized : \A o \in normalizedOutcomes(v) :
       o.returns /\ o.result = normalize(v)

(***************************************************************************)
(* C26.  parseArgs handles a flag given as two arguments (--width W,       *)
(* --height H, --boids B) at any position: the option takes the value and  *)
(* the value is not read as the positional count.  For the example of the  *)
(* help text, flocking 500 --width 1920 --height 1080 --trails, parseArgs  *)
(* returns numBoids = 500, width = 1920, height = 1080, showTrails = true. *)
(***************************************************************************)
ParseArgsReturned == pc = "validate"

C26_FlagsAsTwoArguments ==
    ParseArgsReturned /\ argv = DocumentedExample =>
       /\ opt.numBoids = 500
       /\ opt.width = 1920
       /\ opt.height = 1080
       /\ opt.showTrails

\* What does hold: a flag that is the first argument takes the argument
\* after it as its value.
FirstFlagTaken ==
    ParseArgsReturned /\ argc = 3 /\ ArgAt(1) = KeyBoids /\ parseInt(ArgAt(2), 0).ok =>
       opt.numBoids = parseInt(ArgAt(2), 0).out

(***************************************************************************)
(* C27.  After every completed step in a viewport of positive width W and  *)
(* height H, every agent has -r <= position.x <= W + r and                 *)
(* -r <= position.y <= H + r, wherever it was before the step.             *)
(***************************************************************************)
StepCompleted == StepIsLast /\ pc \in { "render", "idle" }

InsideBand(b, width, height) ==
    /\ -b.r <= b.position.x /\ b.position.x <= FromInt(width) + b.r
    /\ -b.r <= b.position.y /\ b.position.y <= FromInt(height) + b.r

C27_InsideBandAfterStep ==
    StepCompleted /\ windowWidth > 0 /\ windowHeight > 0 =>
       \A i \in 1..N : InsideBand(birds[i], windowWidth, windowHeight)

\* A step has completed for an agent that a shrinking resize had left far
\* outside the viewport.
C27_Witness ==
    /\ StepCompleted /\ windowWidth > 0 /\ windowHeight > 0
    /\ \E i \in 1..N :
          /\ ~InsideBand(last.birds[i], windowWidth, windowHeight)
          /\ last.birds[i].position.x > FromInt(2 * windowWidth)
          /\ InsideBand(birds[i], windowWidth, windowHeight)

(***************************************************************************)
(* C28.  Between steps the acceleration of every agent is (0,0): at        *)
(* construction, after initializeBirds / addBoid / addBoids and after      *)
(* every step of either path.  Within a step an agent's acceleration is    *)
(* (0,0) until its force is applied and again once it is integrated, so    *)
(* `acceleration += buffer` of the parallel path yields exactly the force  *)
(* computed in this step.                                                  *)
(***************************************************************************)
AtRest(b) == b.acceleration = Zero

Dts == { Lit(1, 60), Lit(1, 10) }

\* SDL_KEYDOWN with SDLK_SPACE
KeySpace ==
    /\ pc = "idle" /\ presses < MaxOps
    /\ paused' = ~paused
    /\ presses' = presses + 1
    /\ UNCHANGED << flockVars, stepIdle, last, nOps, argv, argi, opt, cin, cat >>

\* SDL_MOUSEBUTTONDOWN with the left button at (x, y)
MouseButtonDown ==
    /\ pc = "idle" /\ nOps < MaxOps /\ N < MaxBirds
    /\ \E c \in Clicks :
          /\ cat' = Cat_goTo(cat, FromInt(c[1]), FromInt(c[2]))
          /\ birds' = addBoidTo(birds, FromInt(c[1]), FromInt(c[2]), randState)
          /\ last' = Before("addBoid", 1, c[1], c[2])
    /\ randState' = RandAfter(randState, BirdRandCalls)
    /\ nOps' = nOps + 1
    /\ UNCHANGED << windowWidth, windowHeight, stepIdle, argv, argi, opt, cin,
                    paused, presses >>

\* SDL_WINDOWEVENT_RESIZED
WindowResized ==
    /\ pc = "idle" /\ nOps < MaxOps
    /\ \E sz \in Sizes :
          /\ opt' = [opt EXCEPT !.width = sz[1], !.height = sz[2]]
          /\ windowWidth' = sz[1]
          /\ windowHeight' = sz[2]
          /\ cat' = Cat_placeAtBottom(cat, sz[1], sz[2])
          /\ last' = Before("resize", 0, sz[1], sz[2])
    /\ nOps' = nOps + 1
    /\ UNCHANGED << birds, randState, stepIdle, argv, argi, cin, paused, presses >>

\* A frame that calls the update whether paused or not.
UpdateFrameAlways == BeginSerial \/ BeginParallel

\* `if (!paused)` holds: flock.updateSerial() or flock.updateParallel() is
\* called.
UpdateFrame == ~paused /\ (BeginSerial \/ BeginParallel)

\* `if (!paused)` fails.
PausedFrame == paused /\ SkipUpdate

\* The rest of the frame once the update has returned or was skipped:
\* cat.update(dt) and cat.clampToWindow(opt.width, opt.height), still under
\* `if (!paused)`, then drawing.
EndFrame ==
    /\ pc = "render"
    /\ pc' = "idle"
    /\ IF paused
       THEN cat' = cat
       ELSE \E dt \in Dts :
               cat' = Cat_clampToWindow(Cat_update(cat, dt), opt.width, opt.height)
    /\ UNCHANGED << flockVars, idx, done, localVars, reads, writes, moved, last,
                    nSteps, nOps, argv, argi, opt, cin, paused, presses >>

NextFrame ==
    \/ KeySpace
    \/ MouseButtonDown
    \/ WindowResized
    \/ AddBoids
    \/ RemoveBoids
    \/ UpdateFrame
    \/ StepNext
    \/ PausedFrame
    \/ EndFrame

FrameSpec == InitStep /\ [][NextFrame]_vars

(***************************************************************************)
(* C29.  While paused no flock step and no cat update runs: paused is true *)
(* after an odd number of SPACE presses and only then; no step is under    *)
(* way while it is true; a frame that finds it true leaves the flock and   *)
(* the cat as they are; an event handled while it is true leaves every     *)
(* agent that stays in the flock as it is; and a frame that finds it false *)
(* calls the update.                                                       *)
(***************************************************************************)
Min(a, b) == IF a <= b THEN a ELSE b

PausedIffOddPresses == paused <=> presses % 2 = 1

NoStepWhilePaused == paused => ~StepUnderWay

\* A step of the frame's body (every one moves pc) in a paused frame.
PausedFrameKeepsAll ==
    paused /\ pc' # pc => birds' = birds /\ cat' = cat /\ nSteps' = nSteps

\* An event (pc stays "idle") while paused.
PausedEventKeepsAgents ==
    paused /\ pc' = pc =>
       \A i \in 1..Min(Len(birds), Len(birds')) : birds'[i] = birds[i]

\* A frame that is not paused steps the flock.
RunningFrameSteps ==
    ~paused /\ pc = "idle" /\ pc' # "idle" =>
       nSteps' = nSteps + 1 /\ last'.op \in { "updateSerial", "updateParallel" }

C29_Paused ==
    /\ [](PausedIffOddPresses /\ NoStepWhilePaused)
    /\ [][PausedFrameKeepsAll /\ PausedEventKeepsAgents /\ RunningFrameSteps]_vars

\* A paused frame has left alone a flock that stepped before and a cat that
\* is walking to a click.
C29_Witness ==
    /\ paused /\ pc = "render"
    /\ nSteps >= 1 /\ N >= 2
    /\ cat.moving /\ cat.state = "WalkRight"

(***************************************************************************)
(* The cat alone: Cat::goTo for a click inside the window, and the frame's *)
(* cat.update(dt); cat.clampToWindow(opt.width, opt.height) followed by    *)
(* drawing.  The flock, which the cat never reads, stays as it is.  A      *)
(* click comes only while the cat stands, so that no goTo follows another  *)
(* before the cat arrives.                                                 *)
(***************************************************************************)
\* Click positions inside the 640 x 480 window.
CatClicks == { << 10, 100 >>, << 300, 240 >>, << 600, 400 >> }

CatGoTo ==
    /\ pc = "idle" /\ ~cat.moving
    /\ \E c \in CatClicks : cat' = Cat_goTo(cat, FromInt(c[1]), FromInt(c[2]))
    /\ UNCHANGED << flockVars, stepIdle, last, nOps, argv, argi, opt, cin,
                    paused, presses >>

CatFrame ==
    /\ pc = "idle" /\ ~paused
    /\ \E dt \in Dts :
          cat' = Cat_clampToWindow(Cat_update(cat, dt), opt.width, opt.height)
    /\ pc' = "render"
    /\ UNCHANGED << flockVars, idx, done, localVars, reads, writes, moved, nSteps,
                    last, nOps, argv, argi, opt, cin, paused, presses >>

NextCat == CatGoTo \/ CatFrame \/ Render

\* main's loop runs a frame after a frame: once the events are handled the
\* frame's body runs, and then the drawing.  The first disjunction is
\* WF_vars(CatFrame) with ENABLED <<CatFrame>>_vars written as the state
\* predicate it equals: CatFrame moves pc whenever it can run.
CatFair ==
    /\ []<>(pc # "idle" \/ paused) \/ []<><<CatFrame>>_vars
    /\ WF_vars(Render)

CatSpec == Init /\ [][NextCat]_vars /\ CatFair

(***************************************************************************)
(* C30.  After Cat::goTo(px, py) for a click inside the window, the frames *)
(* update(dt); clampToWindow(W, H) with dt > 0 eventually reach            *)
(* moving = false with state = IdleBack, when no further goTo is issued.   *)
(***************************************************************************)
CatArrived == ~cat.moving /\ cat.state = "IdleBack"

C30_CatArrives == cat.moving ~> CatArrived

====
